---- MODULE Spec2Model ----
(***************************************************************************)
(* Dataset profiling and cleaning engine (dataUtils) together with the     *)
(* DataCleaning and DataBot pages that call it.                            *)
(*                                                                         *)
(* JavaScript values are records [t, num, den, s]: t is the typeof-like    *)
(* tag, num/den an exact fraction standing for the double (den = 0 is NaN  *)
(* when num = 0 and +/-Infinity otherwise), s the characters of a string.  *)
(* A row object is the sequence of its own properties in insertion order;  *)
(* row objects live in a heap and arrays hold their addresses.             *)
(***************************************************************************)
EXTENDS Integers, Sequences, FiniteSets, TLC

(* ------------------------------ bounds --------------------------------- *)

MaxRows == 3

MaxSelected == 2

\* rows of a profiled dataset with one numeric field
MaxNumRows == 4

\* rows of a profiled dataset with one text field
MaxTextRows == 3

\* rows of a profiled dataset with three fields
MaxWideRows == 3

\* rows of a dataset uploaded to the cleaning page
MaxPageRows == 2

\* rows of a dataset the bot is asked about
MaxBotRows == 3

\* rows of a profiled dataset of integers next to 2^53
MaxPreciseRows == 3

\* rows of a dataset uploaded to the bot page
MaxChatRows == 1

\* calls of parseCSV that have not settled
MaxParsing == 1

\* messages shown by the bot page
MaxMessages == 6

\* timers of handleSendMessage that have not fired
MaxTimers == 1

\* the highest reading of Date.now()
MaxClock == 4

(* ------------------------------ values --------------------------------- *)

\* a value: its type t, the text s of a string, and the number. A number is a
\* double, written from a fraction H = num/den: with s empty it is H itself,
\* and with s = <<kn, kd, x>> it is (H + kn/kd * ulp) * 2^x, the double that
\* lies kn/kd ulps from H. ulp = 2^(L - 52) is the step between the doubles
\* of the binade the double lies in, 2^L <= |.| < 2^(L + 1): L is the integer
\* part of log2 |H|, and one less when |H| is a power of two and kn/kd points
\* towards zero. x is 0 whenever H * 2^x has a numerator and a denominator
\* below 2^30, and 1 <= |H| < 2 otherwise. So 1/3 is [num 1, den 3,
\* s <<-1, 3, 0>>] (6004799503160661 / 2^54) and 2^53 - 2 is [num 1, den 1,
\* s <<-2, 1, 53>>]. den = 0 is NaN (num = 0) or an infinity (num = +/-1).
\* A function or an object, which a row or a table inherits from
\* Object.prototype, has t = "function" or "object" and its name in s.
V(t, num, den, s) == [t |-> t, num |-> num, den |-> den, s |-> s]

Null == V("null", 0, 1, <<>>)

Undefined == V("undefined", 0, 1, <<>>)

Str(s) == V("string", 0, 1, s)

Bool(b) == V("boolean", IF b THEN 1 ELSE 0, 1, <<>>)

NaN == V("number", 0, 0, <<>>)

Abs(n) == IF n < 0 THEN -n ELSE n

Sign(n) == IF n < 0 THEN -1 ELSE IF n > 0 THEN 1 ELSE 0

RECURSIVE GCD(_, _)
GCD(a, b) == IF b = 0 THEN a ELSE GCD(b, a % b)

\* the number that is exactly n/d (n/d has to be a double); d = 0 gives NaN
\* (0/0) or an infinity
Frac(n, d) ==
  IF d = 0 THEN V("number", Sign(n), 0, <<>>)
  ELSE LET g == GCD(Abs(n), Abs(d))
           sg == Sign(d)
       IN  V("number", (sg * n) \div g, (sg * d) \div g, <<>>)

Num(n) == Frac(n, 1)

(* ------------------------- double arithmetic --------------------------- *)

\* Fractions <<n, d>> in lowest terms, d > 0: the parts H and kn/kd a double
\* is written with, computed with exactly.

Rat(n, d) ==
  <<(Sign(d) * n) \div GCD(Abs(n), Abs(d)), Abs(d) \div GCD(Abs(n), Abs(d))>>

RMul(a, b) ==
  IF a[1] = 0 \/ b[1] = 0 THEN <<0, 1>>
  ELSE <<(a[1] \div GCD(Abs(a[1]), b[2])) * (b[1] \div GCD(Abs(b[1]), a[2])),
         (a[2] \div GCD(Abs(b[1]), a[2])) * (b[2] \div GCD(Abs(a[1]), b[2]))>>

RAdd(a, b) ==
  Rat((a[1] * (b[2] \div GCD(a[2], b[2]))) + (b[1] * (a[2] \div GCD(a[2], b[2]))),
      (a[2] \div GCD(a[2], b[2])) * b[2])

RNeg(a) == <<-a[1], a[2]>>

RInv(a) == IF a[1] > 0 THEN <<a[2], a[1]>> ELSE <<-a[2], -a[1]>>

RLess(a, b) == a[1] * b[2] < b[1] * a[2]

\* the number of binary digits of n > 0, and of the zeros they end with
Bits(n) == CHOOSE b \in 1..31 : n \div (2 ^ (b - 1)) = 1

Twos(n) == CHOOSE t \in 0..30 : n % (2 ^ t) = 0 /\ (n \div (2 ^ t)) % 2 = 1

Least(m, n) == IF m < n THEN m ELSE n

\* a * 2^e: t of the e factors cancel against the other part of the fraction
ScaleUp(a, e, t) == <<a[1] * (2 ^ (e - t)), a[2] \div (2 ^ t)>>

ScaleDown(a, e, t) == <<a[1] \div (2 ^ t), a[2] * (2 ^ (e - t))>>

Scale(a, e) ==
  IF a[1] = 0 THEN <<0, 1>>
  ELSE IF e >= 0 THEN ScaleUp(a, e, Least(e, Twos(a[2])))
  ELSE ScaleDown(a, -e, Least(-e, Twos(Abs(a[1]))))

\* the integer part of log2(n/d), for n/d > 0: the difference of the numbers
\* of binary digits, or one less
LogAt(n, d, L) ==
  IF L >= 0 THEN (IF n >= d * (2 ^ L) THEN L ELSE L - 1)
  ELSE (IF n * (2 ^ (-L)) >= d THEN L ELSE L - 1)

Log2(n, d) == LogAt(n, d, Bits(n) - Bits(d))

Lg(a) == Log2(Abs(a[1]), a[2])

IsPow2(n) == n = 2 ^ (Bits(n) - 1)

\* (a * 8192) modulo m without a product beyond 2^31: with q = m \div 8192
\* and r = m % 8192, a * 8192 = 8192 * (a % q) - r * (a \div q) + m * (a \div q)
Times8192(a, m) ==
  IF m <= 2 ^ 18 THEN (a * 8192) % m
  ELSE ((8192 * (a % (m \div 8192))) - ((m % 8192) * (a \div (m \div 8192)))) % m

\* (a * 2^52) modulo m, for a >= 0
ShiftMod52(a, m) == Times8192(Times8192(Times8192(Times8192(a % m, m), m), m), m)

\* n/d * 2^e has a numerator and a denominator below 2^30 (n/d > 0 in lowest
\* terms)
Foldable(n, d, e) ==
  IF e >= 0
  THEN d < 2 ^ 30 /\ (Bits(n) + e) - Least(e, Twos(d)) <= 30
  ELSE n < 2 ^ 30 /\ (Bits(d) - e) - Least(-e, Twos(n)) <= 30

\* a number the integers TLC computes with cannot write (an exponent or an
\* error beyond the ones above): evaluation stops
Unwritable == CHOOSE n \in {} : TRUE

\* the parts of a finite number
HOf(v) == <<v.num, v.den>>

KOf(v) == IF v.s = <<>> THEN <<0, 1>> ELSE <<v.s[1], v.s[2]>>

XOf(v) == IF v.s = <<>> THEN 0 ELSE v.s[3]

\* the double lies in the binade below the one of H
Below(H, k) ==
  k[1] # 0 /\ Sign(k[1]) = -Sign(H[1]) /\ IsPow2(Abs(H[1])) /\ IsPow2(H[2])

\* the distance of the double from H in units of 2^(Lg(H) - 52)
ErrOf(v) == IF Below(HOf(v), KOf(v)) THEN Scale(KOf(v), -1) ELSE KOf(v)

MkNum(H, k, x) ==
  V("number", H[1], H[2], IF k[1] = 0 /\ x = 0 THEN <<>> ELSE <<k[1], k[2], x>>)

\* H * 2^x with 1 <= |H| < 2; beyond 2^1024 the double is an infinity
Normal(H, k, x, L) ==
  IF x + L > 1023 THEN Frac(Sign(H[1]), 0)
  ELSE IF x + L < -1022 THEN Unwritable
  ELSE MkNum(Scale(H, -L), k, x + L)

\* the number (H + k * ulp) * 2^x in the one form it is written in
Canon(H, k, x) ==
  IF x = 0 /\ Abs(H[1]) < 2 ^ 30 /\ H[2] < 2 ^ 30 THEN MkNum(H, k, 0)
  ELSE IF Foldable(Abs(H[1]), H[2], x) THEN MkNum(Scale(H, x), k, 0)
  ELSE Normal(H, k, x, Lg(H))

\* The double nearest to (H + (E + j * t) * 2^(Lg(H) - 52)) * 2^x, ties to
\* the even significand: E is what the operation's result differs from H by,
\* j the sign of a further difference t too small to do more than break a
\* tie. In steps: A = |H| and the differences with the sign of H taken out;
\* h = A scaled into the binade 2^52..2^53 of the significands, where the
\* result is N/D = h * 2^52 + E with D the common denominator, and N is known
\* modulo 2 * D.

Finish(A, k, x, sign) ==
  IF Abs(k[1]) \div k[2] >= 2 ^ 20 THEN Unwritable
  ELSE Canon(<<sign * A[1], A[2]>>, <<sign * k[1], k[2]>>, x)

\* N/D rounded to a whole number: down by r/D or up by (D - r)/D, r = N % D;
\* at r/D = 1/2 as j says, else to the even one, which is up when N >= D
Nearest(A, E, j, x, sign, D, N) ==
  Finish(A,
         RAdd(E, IF N % D = 0 THEN <<0, 1>>
                 ELSE IF \/ 2 * (N % D) < D
                         \/ (2 * (N % D) = D /\ (j < 0 \/ (j = 0 /\ N < D)))
                 THEN Rat(-(N % D), D)
                 ELSE Rat(D - (N % D), D)),
         x, sign)

RoundBy(A, E, j, x, sign, h, g) ==
  Nearest(A, E, j, x, sign, h[2] * (E[2] \div g),
          (ShiftMod52(h[1] * (E[2] \div g), 2 * h[2] * (E[2] \div g))
             + (E[1] * (h[2] \div g)))
            % (2 * h[2] * (E[2] \div g)))

RoundIn(A, E, j, x, sign, h) == RoundBy(A, E, j, x, sign, h, GCD(h[2], E[2]))

RoundAt(A, E, j, x, sign, L, below) ==
  RoundIn(A, IF below THEN Scale(E, 1) ELSE E, j, x, sign,
          Scale(A, IF below THEN 1 - L ELSE -L))

RoundPos(A, E, j, x, sign) ==
  RoundAt(A, E, j, x, sign, Lg(A),
          IsPow2(A[1]) /\ IsPow2(A[2]) /\ (E[1] < 0 \/ (E[1] = 0 /\ j < 0)))

Round(H, E, j, x) ==
  IF H[1] = 0 THEN Num(0)
  ELSE RoundPos(<<Abs(H[1]), H[2]>>, <<Sign(H[1]) * E[1], E[2]>>, Sign(H[1]) * j,
                x, Sign(H[1]))

\* e * 2^s as a difference, and as the sign that is left of it when it is
\* more than 24 binary places below the ulp
Shifted(e, s) == IF s < -24 THEN <<0, 1>> ELSE Scale(e, s)

TieOf(e, s) == IF s < -24 THEN Sign(e[1]) ELSE 0

IsNaN(x) == x.den = 0 /\ x.num = 0

IsFinite(x) == x.den > 0

\* n/d is a double as it stands
IsExact(r) == r[2] < 2 ^ 30 /\ Abs(r[1]) < 2 ^ 30 /\ IsPow2(r[2])

\* Ha * 2^x + Hb * 2^x with the differences ea, eb of the two doubles; when
\* Ha + Hb = 0 the sum is the sum of the differences, a double as it stands
AddAt(H, L, La, ea, Lb, eb, x) ==
  Round(H, RAdd(Shifted(ea, La - L), Shifted(eb, Lb - L)),
        TieOf(ea, La - L) + TieOf(eb, Lb - L), x)

AddCancel(Lm, La, ea, Lb, eb, x) ==
  Round(RAdd(Scale(ea, La - Lm), Scale(eb, Lb - Lm)), <<0, 1>>, 0, x + Lm - 52)

AddSum(H, La, ea, Lb, eb, x) ==
  IF H[1] = 0 THEN AddCancel(IF La < Lb THEN La ELSE Lb, La, ea, Lb, eb, x)
  ELSE AddAt(H, Lg(H), La, ea, Lb, eb, x)

AddSame(Ha, ea, Hb, eb, x) == AddSum(RAdd(Ha, Hb), Lg(Ha), ea, Lg(Hb), eb, x)

\* the sum of two numbers d > 0 binades apart, both with 1 <= |H| < 2: the
\* smaller one is added to H, or to the difference when it is next to the ulp
AddApart(Ha, ea, xa, Hb, eb, d) ==
  IF d <= 25 THEN AddSame(Ha, ea, Scale(Hb, -d), eb, xa)
  ELSE IF d < 34 THEN Unwritable
  ELSE Round(Ha, RAdd(ea, Shifted(Hb, 52 - d)),
             IF 52 - d < -24 THEN Sign(Hb[1]) ELSE Sign(eb[1]), xa)

AddNorm(a, La, b, Lb) ==
  IF XOf(a) + La >= XOf(b) + Lb
  THEN AddApart(Scale(HOf(a), -La), ErrOf(a), XOf(a) + La,
                Scale(HOf(b), -Lb), ErrOf(b), (XOf(a) + La) - (XOf(b) + Lb))
  ELSE AddApart(Scale(HOf(b), -Lb), ErrOf(b), XOf(b) + Lb,
                Scale(HOf(a), -La), ErrOf(a), (XOf(b) + Lb) - (XOf(a) + La))

AddDoubles(a, b) ==
  IF XOf(a) = XOf(b) THEN AddSame(HOf(a), ErrOf(a), HOf(b), ErrOf(b), XOf(a))
  ELSE AddNorm(a, Lg(HOf(a)), b, Lg(HOf(b)))

AddExact(r, a, b) == IF IsExact(r) THEN V("number", r[1], r[2], <<>>) ELSE AddDoubles(a, b)

\* a + b on doubles
JSAdd(a, b) ==
  IF IsNaN(a) \/ IsNaN(b) THEN NaN
  ELSE IF a.den = 0 /\ b.den = 0
       THEN (IF a.num = b.num THEN a ELSE NaN)
  ELSE IF a.den = 0 THEN a
  ELSE IF b.den = 0 THEN b
  ELSE IF a.num = 0 THEN b
  ELSE IF b.num = 0 THEN a
  ELSE IF a.s = <<>> /\ b.s = <<>> THEN AddExact(RAdd(HOf(a), HOf(b)), a, b)
  ELSE AddDoubles(a, b)

Negated(b) ==
  [b EXCEPT !.num = -b.num, !.s = IF @ = <<>> THEN <<>> ELSE <<-@[1], @[2], @[3]>>]

\* a - b on doubles
JSSub(a, b) == JSAdd(a, Negated(b))

\* Ha * Hb with the differences of the two doubles: the product differs from
\* it by Ha * eb + Hb * ea, and by ea * eb, which breaks ties
MulAt(H, La, Lb, a, b) ==
  Round(H,
        Scale(RAdd(RMul(Scale(HOf(a), -La), ErrOf(b)), RMul(Scale(HOf(b), -Lb), ErrOf(a))),
              (La + Lb) - Lg(H)),
        Sign(KOf(a)[1]) * Sign(KOf(b)[1]),
        XOf(a) + XOf(b))

MulDoubles(a, b) == MulAt(RMul(HOf(a), HOf(b)), Lg(HOf(a)), Lg(HOf(b)), a, b)

MulExact(r, a, b) == IF IsExact(r) THEN V("number", r[1], r[2], <<>>) ELSE MulDoubles(a, b)

\* a * b on doubles
JSMul(a, b) ==
  IF IsNaN(a) \/ IsNaN(b) THEN NaN
  ELSE IF a.den = 0 \/ b.den = 0
       THEN Frac(Sign(a.num) * Sign(b.num), 0)
  ELSE IF a.num = 0 \/ b.num = 0 THEN Num(0)
  ELSE IF a.s = <<>> /\ b.s = <<>> THEN MulExact(RMul(HOf(a), HOf(b)), a, b)
  ELSE MulDoubles(a, b)

\* Ha / Hb with the differences of the two doubles: the quotient differs from
\* it by ea / Hb - Ha * eb / Hb^2, and by a term of the opposite sign of
\* eb / Hb times that, which breaks ties
DivRound(H, E, a, b) ==
  Round(H, E, -(Sign(KOf(b)[1]) * Sign(b.num) * Sign(E[1])), XOf(a) - XOf(b))

DivAt(H, La, Lb, ihb, a, b) ==
  DivRound(H,
           Scale(RAdd(RMul(ErrOf(a), ihb),
                      RNeg(RMul(RMul(RMul(ErrOf(b), Scale(HOf(a), -La)), ihb), ihb))),
                 (La - Lb) - Lg(H)),
           a, b)

DivIn(La, Lb, a, b) ==
  DivAt(RMul(HOf(a), RInv(HOf(b))), La, Lb, RInv(Scale(HOf(b), -Lb)), a, b)

DivDoubles(a, b) == DivIn(Lg(HOf(a)), Lg(HOf(b)), a, b)

DivExact(r, a, b) == IF IsExact(r) THEN V("number", r[1], r[2], <<>>) ELSE DivDoubles(a, b)

\* a / b on doubles
JSDiv(a, b) ==
  IF IsNaN(a) \/ IsNaN(b) THEN NaN
  ELSE IF a.den = 0 /\ b.den = 0 THEN NaN
  ELSE IF a.den = 0 THEN Frac(IF b.num < 0 THEN -a.num ELSE a.num, 0)
  ELSE IF b.den = 0 THEN Num(0)
  ELSE IF b.num = 0 THEN Frac(Sign(a.num), 0)
  ELSE IF a.num = 0 THEN Num(0)
  ELSE IF a.s = <<>> /\ b.s = <<>> THEN DivExact(RMul(HOf(a), RInv(HOf(b))), a, b)
  ELSE DivDoubles(a, b)

\* a < b for two finite numbers of the same sign that are not both written
\* as fractions: by H, and by the difference when H is the same
LessSame(Ha, ea, Hb, eb) == IF Ha # Hb THEN RLess(Ha, Hb) ELSE RLess(ea, eb)

LessNorm(a, La, b, Lb) ==
  IF XOf(a) + La # XOf(b) + Lb
  THEN (XOf(a) + La < XOf(b) + Lb) = (a.num > 0)
  ELSE LessSame(Scale(HOf(a), -La), ErrOf(a), Scale(HOf(b), -Lb), ErrOf(b))

LessDoubles(a, b) ==
  IF Sign(a.num) # Sign(b.num) THEN Sign(a.num) < Sign(b.num)
  ELSE IF a.num = 0 THEN FALSE
  ELSE IF XOf(a) = XOf(b) THEN LessSame(HOf(a), ErrOf(a), HOf(b), ErrOf(b))
  ELSE LessNorm(a, Lg(HOf(a)), b, Lg(HOf(b)))

\* a < b on doubles (false when either is NaN)
JSLt(a, b) ==
  /\ ~IsNaN(a)
  /\ ~IsNaN(b)
  /\ IF a.den = 0 /\ b.den = 0 THEN a.num < b.num
     ELSE IF a.den = 0 THEN a.num < 0
     ELSE IF b.den = 0 THEN b.num > 0
     ELSE IF a.s = <<>> /\ b.s = <<>> THEN a.num * b.den < b.num * a.den
     ELSE LessDoubles(a, b)

JSGt(a, b) == JSLt(b, a)

JSLe(a, b) == ~IsNaN(a) /\ ~IsNaN(b) /\ ~JSLt(b, a)

\* v === null || v === undefined || v === ''
IsMissing(v) == v.t = "null" \/ v.t = "undefined" \/ (v.t = "string" /\ v.s = <<>>)

(* ------------------------------ strings -------------------------------- *)

Digits == <<"0", "1", "2", "3", "4", "5", "6", "7", "8", "9">>

IsDigit(c) == \E i \in 1..10 : Digits[i] = c

DigitVal(c) == (CHOOSE i \in 1..10 : Digits[i] = c) - 1

\* String(true) / String(false)
BoolChars(b) == IF b THEN <<"t", "r", "u", "e">> ELSE <<"f", "a", "l", "s", "e">>

(* --------------------------- number to text ---------------------------- *)

\* the decimal digits of a natural number
RECURSIVE NatChars(_)
NatChars(n) ==
  IF n < 10 THEN <<Digits[n + 1]>>
  ELSE NatChars(n \div 10) \o <<Digits[(n % 10) + 1]>>

\* Natural numbers of any size, for the digits of a double: the sequence of
\* the digits in base 10000, the lowest first, the highest not 0 (0 is <<>>).

RECURSIVE BSmall(_)
BSmall(n) == IF n = 0 THEN <<>> ELSE <<n % 10000>> \o BSmall(n \div 10000)

\* a * m + c, for 0 < m <= 200000
RECURSIVE BMulS(_, _, _)
BMulS(a, m, c) ==
  IF a = <<>> THEN BSmall(c)
  ELSE <<((a[1] * m) + c) % 10000>> \o BMulS(Tail(a), m, ((a[1] * m) + c) \div 10000)

BTimes(a, m) == IF m = 0 THEN <<>> ELSE BMulS(a, m, 0)

\* a + b + c
RECURSIVE BAddC(_, _, _)
BAddC(a, b, c) ==
  IF a = <<>> /\ b = <<>> THEN BSmall(c)
  ELSE IF a = <<>> THEN BAddC(b, <<>>, c)
  ELSE IF b = <<>> THEN <<(a[1] + c) % 10000>> \o BAddC(Tail(a), <<>>, (a[1] + c) \div 10000)
  ELSE <<(a[1] + b[1] + c) % 10000>> \o BAddC(Tail(a), Tail(b), (a[1] + b[1] + c) \div 10000)

BAdd(a, b) == BAddC(a, b, 0)

BNorm(a) ==
  IF \A i \in 1..Len(a) : a[i] = 0 THEN <<>>
  ELSE SubSeq(a, 1, CHOOSE n \in 1..Len(a) : a[n] # 0 /\ \A i \in (n + 1)..Len(a) : a[i] = 0)

\* a - b - c, for a >= b + c
RECURSIVE BSubC(_, _, _)
BSubC(a, b, c) ==
  IF a = <<>> THEN <<>>
  ELSE IF b = <<>>
  THEN <<(a[1] - c) % 10000>> \o BSubC(Tail(a), <<>>, IF a[1] - c < 0 THEN 1 ELSE 0)
  ELSE <<((a[1] - b[1]) - c) % 10000>>
       \o BSubC(Tail(a), Tail(b), IF (a[1] - b[1]) - c < 0 THEN 1 ELSE 0)

BSub(a, b) == BNorm(BSubC(a, b, 0))

\* -1, 0 or 1 as a < b, a = b or a > b
BTop(a, b) == CHOOSE n \in 1..Len(a) : a[n] # b[n] /\ \A i \in (n + 1)..Len(a) : a[i] = b[i]

BCmp(a, b) ==
  IF Len(a) # Len(b) THEN (IF Len(a) < Len(b) THEN -1 ELSE 1)
  ELSE IF a = b THEN 0
  ELSE IF a[BTop(a, b)] < b[BTop(a, b)] THEN -1
  ELSE 1

\* a * 2^e and a * 10^e
RECURSIVE BPow2(_, _)
BPow2(a, e) == IF e >= 17 THEN BPow2(BTimes(a, 131072), e - 17) ELSE BTimes(a, 2 ^ e)

BPow10(a, e) ==
  IF a = <<>> THEN a ELSE [i \in 1..(e \div 4) |-> 0] \o BTimes(a, 10 ^ (e % 4))

\* the digit d with d * den <= num < (d + 1) * den, for num < 10 * den
DigitOf(num, den) == CHOOSE d \in 0..9 : BCmp(BTimes(den, d + 1), num) > 0 /\ BCmp(BTimes(den, d), num) <= 0

\* A double greater than 0 is M * 2^E2 with M a whole number of 53 binary
\* digits. Of a number with 1 <= H < 2 and k ulps, M is Nn / q, with q the
\* common denominator of H and k, and Nn = H * q * 2^52 + k * q, or, in the
\* binade below, H * q * 2^53 + k * q.

SigNum(h, k, g, Lb) ==
  IF k[1] >= 0
  THEN BAdd(BPow2(BSmall(h[1] * (k[2] \div g)), 52 - Lb), BSmall(k[1] * (h[2] \div g)))
  ELSE BSub(BPow2(BSmall(h[1] * (k[2] \div g)), 52 - Lb), BSmall((-k[1]) * (h[2] \div g)))

\* M is even
SigEven(h, k, g, Lb, m) ==
  ((IF Lb = 0 THEN ShiftMod52(h[1] * (k[2] \div g), m)
    ELSE (2 * ShiftMod52(h[1] * (k[2] \div g), m)) % m)
   + (k[1] * (h[2] \div g))) % m = 0

\* <<Nn, q, E2, M is 2^52, M is even>>
SigBy(h, k, e, Lb, g) ==
  <<SigNum(h, k, g, Lb), h[2] * (k[2] \div g), (e + Lb) - 52,
    h = <<1, 1>> /\ k[1] = 0, SigEven(h, k, g, Lb, 2 * h[2] * (k[2] \div g))>>

SigIn(h, k, e, Lb) == SigBy(h, k, e, Lb, GCD(h[2], k[2]))

SigAt(v, L) ==
  SigIn(Scale(HOf(v), -L), KOf(v), XOf(v) + L, IF Below(HOf(v), KOf(v)) THEN -1 ELSE 0)

Significand(v) == SigAt(v, Lg(HOf(v)))

\* The shortest digits that read back as the double (Number::toString): the
\* double is num / den, the doubles next to it lie 2 * dm / den below and
\* 2 * dp / den above, and a text between the half way points reads back as
\* it, the half way points included when M is even.

LowEnd(num, dm, even) == BCmp(num, dm) < (IF even THEN 1 ELSE 0)

HighEnd(num, dp, den, even) == BCmp(BAdd(num, dp), den) > (IF even THEN -1 ELSE 0)

\* the last digit: d, or d + 1 when that is nearer (at the same distance an
\* even digit)
LastDigit(rem, den, d, low, high) ==
  IF low /\ high
  THEN (IF BCmp(BTimes(rem, 2), den) > (IF d % 2 = 1 THEN -1 ELSE 0) THEN d + 1 ELSE d)
  ELSE IF high THEN d + 1
  ELSE d

RECURSIVE GenDigits(_, _, _, _, _)
GenEnd(rem, den, dm, dp, even, d, low, high) ==
  IF ~low /\ ~high THEN <<d>> \o GenDigits(rem, den, dm, dp, even)
  ELSE <<LastDigit(rem, den, d, low, high)>>

GenRest(rem, den, dm, dp, even, d) ==
  GenEnd(rem, den, dm, dp, even, d, LowEnd(rem, dm, even), HighEnd(rem, dp, den, even))

GenDigit(num, den, dm, dp, even, d) ==
  GenRest(BSub(num, BTimes(den, d)), den, dm, dp, even, d)

GenDigits(num, den, dm, dp, even) ==
  GenDigit(BTimes(num, 10), den, BTimes(dm, 10), BTimes(dp, 10), even,
           DigitOf(BTimes(num, 10), den))

\* the digits and the place n of the decimal point: 0.d1d2... * 10^n
FirstDigit(num, den, dm, dp, even, n) ==
  IF HighEnd(num, dp, den, even) THEN <<<<1>>, n + 1>>
  ELSE <<GenDigits(num, den, dm, dp, even), n>>

\* num / den brought between 1/10 and 1
RECURSIVE FixPlace(_, _, _, _, _, _)
FixPlace(num, den, dm, dp, even, n) ==
  IF BCmp(num, den) >= 0 THEN FixPlace(num, BTimes(den, 10), dm, dp, even, n + 1)
  ELSE IF BCmp(BTimes(num, 10), den) < 0
  THEN FixPlace(BTimes(num, 10), den, BTimes(dm, 10), BTimes(dp, 10), even, n - 1)
  ELSE FirstDigit(num, den, dm, dp, even, n)

\* the place is about log10(2) times the binary exponent
Place(num, den, dm, dp, even, n) ==
  IF n >= 0 THEN FixPlace(num, BPow10(den, n), dm, dp, even, n)
  ELSE FixPlace(BPow10(num, -n), den, BPow10(dm, -n), BPow10(dp, -n), even, n)

ShortestOf(Nn, q, E2, closer, even) ==
  IF E2 >= 0
  THEN Place(BPow2(Nn, E2 + 2), BSmall(4 * q),
             BPow2(BSmall(q), IF closer THEN E2 ELSE E2 + 1),
             BPow2(BSmall(q), E2 + 1), even, (((E2 + 52) * 30103) \div 100000) + 1)
  ELSE Place(BTimes(Nn, 4), BPow2(BSmall(q), 2 - E2),
             BSmall(IF closer THEN q ELSE 2 * q),
             BSmall(2 * q), even, (((E2 + 52) * 30103) \div 100000) + 1)

ShortestIn(p) == ShortestOf(p[1], p[2], p[3], p[4], p[5])

Shortest(v) == ShortestIn(Significand(v))

DigitChars(ds) == [i \in 1..Len(ds) |-> Digits[ds[i] + 1]]

\* the text of 0.d1d2...dk * 10^n
Layout(s, k, n) ==
  IF k <= n /\ n <= 21 THEN s \o [i \in 1..(n - k) |-> "0"]
  ELSE IF 0 < n /\ n <= 21 THEN SubSeq(s, 1, n) \o <<".">> \o SubSeq(s, n + 1, k)
  ELSE IF -6 < n /\ n <= 0 THEN <<"0", ".">> \o [i \in 1..(-n) |-> "0"] \o s
  ELSE (IF k = 1 THEN s ELSE <<s[1], ".">> \o SubSeq(s, 2, k))
       \o <<"e", IF n - 1 >= 0 THEN "+" ELSE "-">> \o NatChars(Abs(n - 1))

LayoutOf(r) == Layout(DigitChars(r[1]), Len(r[1]), r[2])

\* String(x) of a number
NumChars(x) ==
  IF IsNaN(x) THEN <<"N", "a", "N">>
  ELSE IF x.den = 0
  THEN (IF x.num < 0 THEN <<"-">> ELSE <<>>) \o <<"I", "n", "f", "i", "n", "i", "t", "y">>
  ELSE IF x.num = 0 THEN <<"0">>
  ELSE IF x.s = <<>> /\ x.den = 1
  THEN (IF x.num < 0 THEN <<"-">> ELSE <<>>) \o NatChars(Abs(x.num))
  ELSE IF x.num < 0 THEN <<"-">> \o LayoutOf(Shortest(Negated(x)))
  ELSE LayoutOf(Shortest(x))

\* The digits of the whole number nearest to num / den, the larger one half
\* way between two (toFixed): j digits of (2 * num + den) \div (2 * den)
RECURSIVE WholeDigits(_, _, _)
WholeStep(num, den, j, at, d) ==
  <<d>> \o WholeDigits(BSub(num, BTimes(at, d)), den, j - 1)

WholeAt(num, den, j, at) == WholeStep(num, den, j, at, DigitOf(num, at))

WholeDigits(num, den, j) ==
  IF j = 0 THEN <<>> ELSE WholeAt(num, den, j, BPow10(den, j - 1))

\* without the zeros in front of the last three digits
Leading(ds) ==
  SubSeq(ds, CHOOSE n \in 1..(Len(ds) - 2) :
               (n = Len(ds) - 2 \/ ds[n] # 0) /\ \A i \in 1..(n - 1) : ds[i] = 0,
         Len(ds))

FixedChars(s) == SubSeq(s, 1, Len(s) - 2) \o <<".">> \o SubSeq(s, Len(s) - 1, Len(s))

\* |x| * 100 = Nn * 100 * 2^E2 / q
FixedOf(Nn, q, E2) ==
  IF E2 >= 0
  THEN WholeDigits(BAdd(BPow2(BTimes(Nn, 200), E2), BSmall(q)), BSmall(2 * q),
                   (((E2 + 52) * 30103) \div 100000) + 5)
  ELSE WholeDigits(BAdd(BTimes(Nn, 200), BPow2(BSmall(q), -E2)), BPow2(BSmall(q), 1 - E2),
                   IF E2 + 52 < 0 THEN 3 ELSE (((E2 + 52) * 30103) \div 100000) + 5)

FixedIn(p) == FixedChars(DigitChars(Leading(FixedOf(p[1], p[2], p[3]))))

\* the whole number nearest to |x| * 100 for x = H + k * ulp, when k * ulp
\* is too small to matter but half way: n is the one nearest to H * 100
FixedNear(n) ==
  NatChars(n \div 100) \o <<".", Digits[((n % 100) \div 10) + 1], Digits[(n % 10) + 1]>>

FixedTie(H, k) ==
  FixedNear(((200 * H[1] + H[2]) \div (2 * H[2]))
            - (IF (200 * H[1] + H[2]) % (2 * H[2]) = 0 /\ k[1] < 0 THEN 1 ELSE 0))

\* 200 * q * |k| * 2^L < 2^52: k ulps are less than the least distance
\* 1 / (2 * q) of H * 100 from half way between two whole numbers
IsNear(H, k, L) ==
  /\ H[1] < 5000000
  /\ 8 + Bits(H[2]) + Bits((Abs(k[1]) \div k[2]) + 1) + L < 52

FixedAbs(v) ==
  IF v.s = <<>> /\ v.num < 5000000 THEN FixedTie(HOf(v), <<0, 1>>)
  ELSE IF XOf(v) = 0 /\ IsNear(HOf(v), KOf(v), Lg(HOf(v))) THEN FixedTie(HOf(v), KOf(v))
  ELSE FixedIn(Significand(v))

\* |x| >= 10^21, for x between 2^e and 2^(e + 1)
AtLeast21(p) == BCmp(BPow2(p[1], p[3]), BPow10(BSmall(p[2]), 21)) >= 0

IsHuge(x, e) == e >= 70 \/ (e = 69 /\ AtLeast21(Significand(IF x.num < 0 THEN Negated(x) ELSE x)))

\* x.toFixed(2)
toFixed2(x) ==
  IF IsNaN(x) THEN <<"N", "a", "N">>
  ELSE IF x.den = 0
  THEN (IF x.num < 0 THEN <<"-">> ELSE <<>>) \o <<"I", "n", "f", "i", "n", "i", "t", "y">>
  ELSE IF x.num = 0 THEN <<"0", ".", "0", "0">>
  ELSE IF IsHuge(x, XOf(x) + Lg(HOf(x))) THEN NumChars(x)
  ELSE IF x.num < 0 THEN <<"-">> \o FixedAbs(Negated(x))
  ELSE FixedAbs(x)

(* ------------------------------- rows ---------------------------------- *)

\* a property of a row object
Prop(k, v) == [k |-> k, v |-> v]

HasKey(row, k) == \E i \in 1..Len(row) : row[i].k = k

\* a < b for two whole numbers written without zeros in front
IndexLess(a, b) ==
  \/ Len(a) < Len(b)
  \/ /\ Len(a) = Len(b)
     /\ \E i \in 1..Len(a) :
          /\ DigitVal(a[i]) < DigitVal(b[i])
          /\ \A j \in 1..(i - 1) : a[j] = b[j]

\* s is a canonical array index ("0", "7", "42", up to "4294967294"): such
\* keys of an object are enumerated first, in ascending numeric order
IsArrayIndex(s) ==
  /\ Len(s) > 0
  /\ Len(s) <= 10
  /\ \A i \in 1..Len(s) : IsDigit(s[i])
  /\ (Len(s) > 1 => s[1] # "0")
  /\ ~IndexLess(<<"4", "2", "9", "4", "9", "6", "7", "2", "9", "4">>, s)

\* key a is enumerated before key b when b is added after a
KeyBefore(a, b) ==
  IF IsArrayIndex(b) THEN IsArrayIndex(a) /\ IndexLess(a, b)
  ELSE TRUE

\* seq.filter(keep) for a set keep of indices
RECURSIVE FilterIdx(_, _, _)
FilterIdx(seq, keep, i) ==
  IF i > Len(seq) THEN <<>>
  ELSE (IF i \in keep THEN <<seq[i]>> ELSE <<>>) \o FilterIdx(seq, keep, i + 1)

\* a new property p of an object whose properties obj are in the order they
\* are enumerated in
Insert(obj, p) ==
  FilterIdx(obj, {i \in 1..Len(obj) : KeyBefore(obj[i].k, p.k)}, 1)
  \o <<p>>
  \o FilterIdx(obj, {i \in 1..Len(obj) : ~KeyBefore(obj[i].k, p.k)}, 1)

\* the properties of an object in the order they are enumerated in
\* (OrdinaryOwnPropertyKeys), from the order they were added in
RECURSIVE OwnOrder(_)
OwnOrder(obj) ==
  IF \A i \in 1..Len(obj) : ~IsArrayIndex(obj[i].k) THEN obj
  ELSE Insert(OwnOrder(SubSeq(obj, 1, Len(obj) - 1)), obj[Len(obj)])

\* What a plain object inherits from Object.prototype: the methods
\* (constructor is the function Object) and the accessor __proto__, whose
\* getter gives Object.prototype and whose setter sets no property.
PROTO == <<"_", "_", "p", "r", "o", "t", "o", "_", "_">>

CONSTRUCTOR == <<"c", "o", "n", "s", "t", "r", "u", "c", "t", "o", "r">>

ProtoMethods ==
  {<<"t", "o", "S", "t", "r", "i", "n", "g">>,
   <<"t", "o", "L", "o", "c", "a", "l", "e", "S", "t", "r", "i", "n", "g">>,
   <<"v", "a", "l", "u", "e", "O", "f">>,
   <<"h", "a", "s", "O", "w", "n", "P", "r", "o", "p", "e", "r", "t", "y">>,
   <<"i", "s", "P", "r", "o", "t", "o", "t", "y", "p", "e", "O", "f">>,
   <<"p", "r", "o", "p", "e", "r", "t", "y", "I", "s", "E", "n", "u", "m", "e", "r", "a", "b", "l", "e">>,
   <<"_", "_", "d", "e", "f", "i", "n", "e", "G", "e", "t", "t", "e", "r", "_", "_">>,
   <<"_", "_", "d", "e", "f", "i", "n", "e", "S", "e", "t", "t", "e", "r", "_", "_">>,
   <<"_", "_", "l", "o", "o", "k", "u", "p", "G", "e", "t", "t", "e", "r", "_", "_">>,
   <<"_", "_", "l", "o", "o", "k", "u", "p", "S", "e", "t", "t", "e", "r", "_", "_">>}

\* the function of that name, and Object.prototype itself
Fn(name) == V("function", 0, 1, name)

ObjectPrototype == V("object", 0, 1, <<>>)

Inherited(k) ==
  IF k = CONSTRUCTOR THEN Fn(<<"O", "b", "j", "e", "c", "t">>)
  ELSE IF k \in ProtoMethods THEN Fn(k)
  ELSE IF k = PROTO THEN ObjectPrototype
  ELSE Undefined

\* row[k]: the value of the row's own property, else what the row inherits
\* from Object.prototype, undefined when there is neither
Get(row, k) ==
  IF HasKey(row, k)
  THEN row[CHOOSE i \in 1..Len(row) : row[i].k = k].v
  ELSE Inherited(k)

\* {...row, [k]: v}: the property is overwritten in place, or added
Define(row, k, v) ==
  IF HasKey(row, k)
  THEN OwnOrder([i \in 1..Len(row) |-> IF row[i].k = k THEN Prop(k, v) ELSE row[i]])
  ELSE Insert(OwnOrder(row), Prop(k, v))

\* row[k] = v on a plain object, for v a number, a text or undefined: as
\* above, but __proto__ = v on an object without such a property of its own
\* goes to the setter, which does nothing with v
Put(row, k, v) ==
  IF ~HasKey(row, k) /\ k = PROTO THEN OwnOrder(row)
  ELSE Define(row, k, v)

\* the row objects an array of addresses refers to
Deref(heap, data) == [i \in 1..Len(data) |-> heap[data[i]]]

\* [...new Set(seq)]: distinct elements in order of first occurrence
RECURSIVE Distinct(_, _)
Distinct(seq, i) ==
  IF i > Len(seq) THEN <<>>
  ELSE LET rest == Distinct(seq, i + 1)
       IN  <<seq[i]>> \o FilterIdx(rest, {j \in 1..Len(rest) : rest[j] # seq[i]}, 1)

SetOfSeq(seq) == {seq[i] : i \in 1..Len(seq)}

\* JSON.stringify(value) for a scalar: a tagged literal
JSONValue(v) ==
  IF v.t = "number" THEN (IF IsFinite(v) THEN <<"num", v.num, v.den, v.s>> ELSE <<"null", 0, 1, <<>>>>)
  ELSE IF v.t = "string" THEN <<"str", 0, 1, v.s>>
  ELSE IF v.t = "boolean" THEN <<"bool", v.num, 1, <<>>>>
  ELSE <<"null", 0, 1, <<>>>>

\* the members of JSON.stringify(row) for the properties in the order given;
\* a property that is undefined or a function is left out
RECURSIVE JSONMembers(_)
JSONMembers(props) ==
  IF props = <<>> THEN <<>>
  ELSE (IF Head(props).v.t \in {"undefined", "function"} THEN <<>>
        ELSE <<<<Head(props).k, JSONValue(Head(props).v)>>>>)
       \o JSONMembers(Tail(props))

\* JSON.stringify(row): the members in the order the properties are
\* enumerated in
JSONstringify(row) == JSONMembers(OwnOrder(row))

(* --------------------------- type inference ---------------------------- *)

\* the three alternatives of datePattern; "d" stands for \d
PatISO == <<"d", "d", "d", "d", "-", "d", "d", "-", "d", "d">>

PatSlash == <<"d", "d", "/", "d", "d", "/", "d", "d", "d", "d">>

PatDash == <<"d", "d", "-", "d", "d", "-", "d", "d", "d", "d">>

\* pat matches s starting at position at
MatchAt(s, pat, at) ==
  /\ at + Len(pat) - 1 <= Len(s)
  /\ \A j \in 1..Len(pat) :
       IF pat[j] = "d" THEN IsDigit(s[at + j - 1]) ELSE s[at + j - 1] = pat[j]

\* /^\d{4}-\d{2}-\d{2}|\d{2}\/\d{2}\/\d{4}|\d{2}-\d{2}-\d{4}/.test(s):
\* the anchor belongs to the first alternative only
datePatternTest(s) ==
  \/ MatchAt(s, PatISO, 1)
  \/ \E at \in 1..Len(s) : MatchAt(s, PatSlash, at)
  \/ \E at \in 1..Len(s) : MatchAt(s, PatDash, at)

\* the class of one non-null value
ValueClass(v) ==
  IF v.t = "number" THEN "number"
  ELSE IF v.t = "boolean" THEN "boolean"
  ELSE IF v.t = "string" THEN (IF datePatternTest(v.s) THEN "date" ELSE "string")
  ELSE "string"
determineColumnTypeKeepEmpty(values) ==
  LET nonNullValues ==
        FilterIdx(values, {i \in 1..Len(values) : values[i].t \notin {"null", "undefined"}}, 1)
      types == [i \in 1..Len(nonNullValues) |-> ValueClass(nonNullValues[i])]
      uniqueTypes == Distinct(types, 1)
  IN  IF Len(nonNullValues) = 0 THEN "string"
      ELSE IF Len(uniqueTypes) = 1 THEN uniqueTypes[1]
      ELSE "mixed"

determineColumnType(values) ==
  LET nonNullValues == FilterIdx(values, {i \in 1..Len(values) : ~IsMissing(values[i])}, 1)
      types == [i \in 1..Len(nonNullValues) |-> ValueClass(nonNullValues[i])]
      uniqueTypes == Distinct(types, 1)
  IN  IF Len(nonNullValues) = 0 THEN "string"
      ELSE IF Len(uniqueTypes) = 1 THEN uniqueTypes[1]
      ELSE "mixed"

(* ------------------------------ profiling ------------------------------ *)

\* the value of a whole number written in digits
RECURSIVE IndexVal(_)
IndexVal(s) ==
  IF s = <<>> THEN 0
  ELSE 10 * IndexVal(SubSeq(s, 1, Len(s) - 1)) + DigitVal(s[Len(s)])

\* a value in a condition: undefined, null, NaN, 0 and '' count as false
Truthy(v) ==
  IF v.t = "undefined" \/ v.t = "null" THEN FALSE
  ELSE IF v.t = "number" THEN ~IsNaN(v) /\ v.num # 0
  ELSE IF v.t = "string" THEN v.s # <<>>
  ELSE IF v.t = "boolean" THEN v.num = 1
  ELSE TRUE

\* String(value)
JSString(v) ==
  IF v.t = "string" THEN v.s
  ELSE IF v.t = "number" THEN NumChars(v)
  ELSE IF v.t = "boolean" THEN BoolChars(v.num = 1)
  ELSE IF v.t = "null" THEN <<"n", "u", "l", "l">>
  ELSE IF v.t = "function"
  THEN <<"f", "u", "n", "c", "t", "i", "o", "n", " ">> \o v.s
       \o <<"(", ")", " ", "{", " ", "[", "n", "a", "t", "i", "v", "e", " ",
            "c", "o", "d", "e", "]", " ", "}">>
  ELSE IF v.t = "object"
  THEN <<"[", "o", "b", "j", "e", "c", "t", " ", "O", "b", "j", "e", "c", "t", "]">>
  ELSE <<"u", "n", "d", "e", "f", "i", "n", "e", "d">>

\* Number(s) of a text: white space around it dropped, '' is 0, then
\* Infinity, a decimal literal (digits, a fraction, an exponent) with a sign,
\* or digits in base 16, 8 or 2 after 0x, 0o or 0b; NaN for anything else
\* WhiteSpace and LineTerminator: tab, line feed, vertical tab, form feed,
\* carriage return, space, U+00A0, U+1680 and U+FEFF; the others (U+2000 to
\* U+200A, U+2028, U+2029, U+202F, U+205F, U+3000) are characters no string
\* of this module can hold
IsSpace(c) == c \in {" ", "\t", "\n", "\r", "\f", "", " ", " ", "﻿"}

Trim(s) ==
  IF \A i \in 1..Len(s) : IsSpace(s[i]) THEN <<>>
  ELSE SubSeq(s,
              CHOOSE i \in 1..Len(s) : ~IsSpace(s[i]) /\ \A j \in 1..(i - 1) : IsSpace(s[j]),
              CHOOSE i \in 1..Len(s) : ~IsSpace(s[i]) /\ \A j \in (i + 1)..Len(s) : IsSpace(s[j]))

\* the first place of one of the characters cs in s, Len(s) + 1 without one
FirstOf(s, cs) ==
  IF \E i \in 1..Len(s) : s[i] \in cs
  THEN CHOOSE i \in 1..Len(s) : s[i] \in cs /\ \A j \in 1..(i - 1) : s[j] \notin cs
  ELSE Len(s) + 1

AllDigits(s) == \A i \in 1..Len(s) : IsDigit(s[i])

HexDigits ==
  <<"0", "1", "2", "3", "4", "5", "6", "7", "8", "9", "a", "b", "c", "d", "e", "f">>

\* the value of the digit c in a base up to 16, 16 when it is none
BaseDigit(c) ==
  IF \E i \in 1..16 : HexDigits[i] = c THEN (CHOOSE i \in 1..16 : HexDigits[i] = c) - 1
  ELSE IF c \in {"A", "B", "C", "D", "E", "F"}
  THEN (CHOOSE i \in 11..16 : <<"A", "B", "C", "D", "E", "F">>[i - 10] = c) - 1
  ELSE 16

RECURSIVE BaseVal(_, _)
BaseVal(s, base) ==
  IF s = <<>> THEN 0
  ELSE base * BaseVal(SubSeq(s, 1, Len(s) - 1), base) + BaseDigit(s[Len(s)])

BaseLiteral(s, base) ==
  IF Len(s) > 0 /\ \A i \in 1..Len(s) : BaseDigit(s[i]) < base
  THEN Num(BaseVal(s, base))
  ELSE NaN

\* m * 10^e, rounded once
TimesTen(m, e) ==
  IF m = 0 THEN Num(0)
  ELSE IF e >= 0 THEN JSMul(Num(m), Num(10 ^ e))
  ELSE JSDiv(Num(m), Num(10 ^ (-e)))

\* the exponent part: digits after an optional sign
ExponentOk(s) ==
  IF s # <<>> /\ s[1] \in {"+", "-"} THEN Len(s) > 1 /\ AllDigits(Tail(s))
  ELSE s # <<>> /\ AllDigits(s)

ExponentVal(s) ==
  IF s[1] = "-" THEN -IndexVal(Tail(s))
  ELSE IF s[1] = "+" THEN IndexVal(Tail(s))
  ELSE IndexVal(s)

\* whole . fraction e exponent (hasExp: there is an exponent part)
DecimalOf(whole, fraction, hasExp, exponent) ==
  IF ~AllDigits(whole) \/ ~AllDigits(fraction) \/ Len(whole) + Len(fraction) = 0 THEN NaN
  ELSE IF hasExp /\ ~ExponentOk(exponent) THEN NaN
  ELSE TimesTen(IndexVal(whole \o fraction),
                (IF hasExp THEN ExponentVal(exponent) ELSE 0) - Len(fraction))

DecimalAt(mantissa, dot, hasExp, exponent) ==
  DecimalOf(SubSeq(mantissa, 1, dot - 1), SubSeq(mantissa, dot + 1, Len(mantissa)),
            hasExp, exponent)

DecimalBy(s, e) ==
  DecimalAt(SubSeq(s, 1, e - 1), FirstOf(SubSeq(s, 1, e - 1), {"."}),
            e <= Len(s), SubSeq(s, e + 1, Len(s)))

Infinity == <<"I", "n", "f", "i", "n", "i", "t", "y">>

UnsignedLiteral(s) ==
  IF s = Infinity THEN Frac(1, 0) ELSE DecimalBy(s, FirstOf(s, {"e", "E"}))

StringToNumber(s) ==
  IF s = <<>> THEN Num(0)
  ELSE IF Len(s) > 2 /\ s[1] = "0" /\ s[2] \in {"x", "X"} THEN BaseLiteral(SubSeq(s, 3, Len(s)), 16)
  ELSE IF Len(s) > 2 /\ s[1] = "0" /\ s[2] \in {"o", "O"} THEN BaseLiteral(SubSeq(s, 3, Len(s)), 8)
  ELSE IF Len(s) > 2 /\ s[1] = "0" /\ s[2] \in {"b", "B"} THEN BaseLiteral(SubSeq(s, 3, Len(s)), 2)
  ELSE IF s[1] = "-" THEN Negated(UnsignedLiteral(Tail(s)))
  ELSE IF s[1] = "+" THEN UnsignedLiteral(Tail(s))
  ELSE UnsignedLiteral(s)

\* Number(v)
ToNumber(v) ==
  IF v.t = "number" THEN v
  ELSE IF v.t = "boolean" THEN Num(v.num)
  ELSE IF v.t = "null" THEN Num(0)
  ELSE IF v.t = "string" THEN StringToNumber(Trim(v.s))
  ELSE NaN

\* the two texts put together, and the two numbers added
Concatenated(texts) == Str(texts[1] \o texts[2])

Added(numbers) == JSAdd(numbers[1], numbers[2])

\* a + b: the texts of the two sides put together when either side is a
\* text, a function or an object, else the sum of their numbers
JSPlus(a, b) ==
  IF a.t \in {"string", "function", "object"} \/ b.t \in {"string", "function", "object"}
  THEN Concatenated([side \in 1..2 |-> JSString(<<a, b>>[side])])
  ELSE Added([side \in 1..2 |-> ToNumber(<<a, b>>[side])])

\* obj[key] = n on a plain object (n a number or a text), kept in
\* Object.entries order; __proto__ = n sets no property
ObjSet(obj, key, n) ==
  IF \E i \in 1..Len(obj) : obj[i].k = key
  THEN [i \in 1..Len(obj) |-> IF obj[i].k = key THEN [k |-> key, n |-> n] ELSE obj[i]]
  ELSE IF key = PROTO THEN obj
  ELSE Insert(obj, [k |-> key, n |-> n])

\* obj[key]: the count under the key, else what obj inherits
ObjRead(obj, key) ==
  IF \E i \in 1..Len(obj) : obj[i].k = key
  THEN obj[CHOOSE i \in 1..Len(obj) : obj[i].k = key].n
  ELSE Inherited(key)

\* v || 0
OrZero(v) == IF Truthy(v) THEN v ELSE Num(0)

\* obj[key] || 0
ObjGet(obj, key) == OrZero(ObjRead(obj, key))

\* categories[key] = (categories[key] || 0) + 1
Counted(categories, key) ==
  ObjSet(categories, key, JSPlus(ObjGet(categories, key), Num(1)))

\* the values.forEach loop that counts each non-null value under String(value)
RECURSIVE CountCategories(_, _, _)
CountCategories(values, i, categories) ==
  IF i > Len(values) THEN categories
  ELSE CountCategories(values, i + 1,
                       IF ~IsMissing(values[i])
                       THEN Counted(categories, JSString(values[i]))
                       ELSE categories)

\* count > maxCount, both sides taken as numbers
Exceeds(numbers) == JSGt(numbers[1], numbers[2])

\* the callback of the loop below for one entry [value, count]
ModeStep(entry, acc) ==
  IF Exceeds([side \in 1..2 |-> ToNumber(<<entry.n, acc.maxCount>>[side])])
  THEN [maxCount |-> entry.n, mode |-> Str(entry.k)]
  ELSE acc

\* the Object.entries(categories).forEach loop: acc = [maxCount, mode]
RECURSIVE FindMode(_, _, _)
FindMode(categories, i, acc) ==
  IF i > Len(categories) THEN acc.mode
  ELSE FindMode(categories, i + 1, ModeStep(categories[i], acc))

\* comparefn(a, b) < 0 for comparefn = (a, b) => a - b: a - b is negative
\* just when a < b, and is NaN, which is not, when a or b is
Precedes(a, b) == JSLt(a, b)

\* The sort of an array of fewer than 64 elements (one run): the run the
\* array starts with is found (CountAndMakeRun) and the elements after it are
\* put into it one by one (BinaryInsertionSort).

\* the length of the first run: it descends when the second element
\* precedes the first, and goes on while every next element precedes the one
\* before it (descending) or does not (ascending)
RunLength(a, desc) ==
  CHOOSE n \in 2..Len(a) :
    /\ \A i \in 2..(n - 1) : Precedes(a[i + 1], a[i]) = desc
    /\ (n = Len(a) \/ Precedes(a[n + 1], a[n]) # desc)

Reverse(a) == [i \in 1..Len(a) |-> a[(Len(a) + 1) - i]]

\* the number of elements of the sorted run the pivot is put after, found by
\* halving between left and right
RECURSIVE InsertPoint(_, _, _, _)
InsertPoint(run, pivot, left, right) ==
  IF left >= right THEN left
  ELSE IF Precedes(pivot, run[(left + ((right - left) \div 2)) + 1])
  THEN InsertPoint(run, pivot, left, left + ((right - left) \div 2))
  ELSE InsertPoint(run, pivot, (left + ((right - left) \div 2)) + 1, right)

InsertInto(run, pivot, at) ==
  SubSeq(run, 1, at) \o <<pivot>> \o SubSeq(run, at + 1, Len(run))

RECURSIVE BinaryInsertionSort(_, _)
BinaryInsertionSort(run, rest) ==
  IF rest = <<>> THEN run
  ELSE BinaryInsertionSort(InsertInto(run, Head(rest), InsertPoint(run, Head(rest), 0, Len(run))),
                           Tail(rest))

SortFrom(a, desc, n) ==
  BinaryInsertionSort(IF desc THEN Reverse(SubSeq(a, 1, n)) ELSE SubSeq(a, 1, n),
                      SubSeq(a, n + 1, Len(a)))

SortRun(a, desc) == SortFrom(a, desc, RunLength(a, desc))

\* [...nums].sort((a, b) => a - b)
SortAsc(nums) ==
  IF Len(nums) < 2 THEN nums
  ELSE IF Len(nums) >= 64 THEN Unwritable
  ELSE SortRun(nums, Precedes(nums[2], nums[1]))

\* Math.min(...nums), nums not empty
RECURSIVE MathMin(_)
MathMin(nums) ==
  IF Len(nums) = 1 THEN nums[1]
  ELSE LET m == MathMin(Tail(nums))
       IN  IF IsNaN(m) \/ IsNaN(Head(nums)) THEN NaN
           ELSE IF JSLt(Head(nums), m) THEN Head(nums) ELSE m

\* Math.max(...nums), nums not empty
RECURSIVE MathMax(_)
MathMax(nums) ==
  IF Len(nums) = 1 THEN nums[1]
  ELSE LET m == MathMax(Tail(nums))
       IN  IF IsNaN(m) \/ IsNaN(Head(nums)) THEN NaN
           ELSE IF JSGt(Head(nums), m) THEN Head(nums) ELSE m

\* nums.reduce((a, b) => a + b, 0)
RECURSIVE SumOf(_)
SumOf(nums) ==
  IF nums = <<>> THEN Num(0)
  ELSE JSAdd(SumOf(SubSeq(nums, 1, Len(nums) - 1)), nums[Len(nums)])
MedianUnsorted(numericValues) ==
  LET sorted == numericValues
      mid == Len(sorted) \div 2
  IN  IF Len(sorted) % 2 = 0
      THEN JSDiv(JSAdd(sorted[mid], sorted[mid + 1]), Num(2))
      ELSE sorted[mid + 1]

\* the median of a non-empty list of numbers
Median(numericValues) ==
  LET sorted == SortAsc(numericValues)
      mid == Len(sorted) \div 2
  IN  IF Len(sorted) % 2 = 0
      THEN JSDiv(JSAdd(sorted[mid], sorted[mid + 1]), Num(2))
      ELSE sorted[mid + 1]

\* the number of null / undefined / '' cells of a column
FieldNulls(values) == Cardinality({i \in 1..Len(values) : IsMissing(values[i])})

\* (count / of) * 100
Percentage(count, of) == JSMul(JSDiv(Num(count), Num(of)), Num(100))

\* the DataColumn the callback returns, from what it has computed
Column(field, type, fieldNulls, rowCount, uniqueValues, hasStats, numericValues, hasCategories, categories) ==
  [name |-> field,
   type |-> type,
   nullCount |-> fieldNulls,
   nullPercentage |-> Percentage(fieldNulls, rowCount),
   uniqueValues |-> uniqueValues,
   uniqueCount |-> Len(uniqueValues),
   min |-> IF hasStats THEN MathMin(numericValues) ELSE Undefined,
   max |-> IF hasStats THEN MathMax(numericValues) ELSE Undefined,
   mean |-> IF hasStats THEN JSDiv(SumOf(numericValues), Num(Len(numericValues))) ELSE Undefined,
   median |-> IF hasStats THEN Median(numericValues) ELSE Undefined,
   hasCategories |-> hasCategories,
   categories |-> categories,
   mode |-> IF hasCategories
            THEN FindMode(categories, 1, [maxCount |-> Num(0), mode |-> Undefined])
            ELSE Undefined]

\* the two if blocks of the callback: the statistics of a column of type
\* number with a number in it, the categories of a column of type string or
\* boolean
TypedColumn(field, values, type, rowCount, numericValues) ==
  Column(field, type, FieldNulls(values), rowCount, Distinct(values, 1),
         type = "number" /\ Len(numericValues) > 0, numericValues,
         type = "string" \/ type = "boolean",
         IF type = "string" \/ type = "boolean" THEN CountCategories(values, 1, <<>>)
         ELSE <<>>)

\* the callback from the values of the field
ValuesColumn(field, values, rowCount) ==
  TypedColumn(field, values, determineColumnType(values), rowCount,
              FilterIdx(values, {i \in 1..Len(values) : values[i].t = "number"}, 1))

\* the body of fields.map(field => ...): the DataColumn of one field
ColumnProfile(field, rows) ==
  ValuesColumn(field, [i \in 1..Len(rows) |-> Get(rows[i], field)], Len(rows))

\* nullCount += fieldNulls, and the column put behind those before it
WithColumn(acc, column) ==
  [nullCount |-> acc.nullCount + column.nullCount,
   columns |-> Append(acc.columns, column)]

Overwritten(acc, column) ==
  [nullCount |-> column.nullCount, columns |-> Append(acc.columns, column)]

\* ProfileColumns with nullCount = fieldNulls in place of nullCount += fieldNulls
RECURSIVE ProfileColumnsOverwrite(_, _, _, _)
ProfileColumnsOverwrite(fields, rows, i, acc) ==
  IF i > Len(fields) THEN acc
  ELSE ProfileColumnsOverwrite(fields, rows, i + 1,
                               Overwritten(acc, ColumnProfile(fields[i], rows)))

\* fields.map over the columns; acc = [nullCount, columns] carries the running
\* nullCount the callback adds to
RECURSIVE ProfileColumns(_, _, _, _)
ProfileColumns(fields, rows, i, acc) ==
  IF i > Len(fields) THEN acc
  ELSE ProfileColumns(fields, rows, i + 1, WithColumn(acc, ColumnProfile(fields[i], rows)))

\* the DataProfile returned, from the columns, the nullCount they left and
\* the number of duplicate rows
DataProfile(rowCount, columnCount, done, duplicateRows) ==
  [rowCount |-> rowCount,
   columnCount |-> columnCount,
   columns |-> done.columns,
   nullValues |-> done.nullCount,
   nullPercentage |-> Percentage(done.nullCount, rowCount * columnCount),
   duplicateRows |-> duplicateRows,
   duplicatePercentage |-> Percentage(duplicateRows, rowCount)]

generateDataProfile(fields, rows) ==
  DataProfile(Len(rows), Len(fields),
              ProfileColumns(fields, rows, 1, [nullCount |-> 0, columns |-> <<>>]),
              Len(rows) - Cardinality(SetOfSeq([i \in 1..Len(rows) |-> JSONstringify(rows[i])])))

(* ------------------------------ cleaning ------------------------------- *)

\* a CleaningSuggestion as cleanDataset reads it; autoFix = FALSE stands for a
\* suggestion whose autoFix is false or not set
Suggestion(column, issue, autoFix) == [column |-> column, issue |-> issue, autoFix |-> autoFix]

\* profile.columns.find(col => col.name === name): the index of the first
\* column of that name, 0 when there is none
FindColumn(profile, name) ==
  IF \E i \in 1..Len(profile.columns) : profile.columns[i].name = name
  THEN CHOOSE i \in 1..Len(profile.columns) :
         /\ profile.columns[i].name = name
         /\ \A j \in 1..(i - 1) : profile.columns[j].name # name
  ELSE 0

\* duplicate removal by splicing repeated rows out of the array inside a
\* forward loop: the row that moves into the freed slot is never looked at
RECURSIVE SpliceRepeated(_, _, _, _)
SpliceRepeated(heap, data, i, seen) ==
  IF i > Len(data) THEN data
  ELSE LET key == JSONstringify(heap[data[i]])
       IN  IF key \in seen
           THEN SpliceRepeated(heap, SubSeq(data, 1, i - 1) \o SubSeq(data, i + 1, Len(data)),
                               i + 1, seen)
           ELSE SpliceRepeated(heap, data, i + 1, seen \cup {key})

RemoveDuplicatesSplice(st) ==
  [heap |-> st.heap, data |-> SpliceRepeated(st.heap, st.data, 1, {})]
\* RemoveDuplicates with the rows keyed by their first property only
RemoveDuplicatesFirstProperty(st) ==
  LET keys == [i \in 1..Len(st.data) |->
                 JSONstringify(SubSeq(st.heap[st.data[i]], 1, 1))]
      order == Distinct(keys, 1)
      last(key) == CHOOSE i \in 1..Len(keys) :
                     /\ keys[i] = key
                     /\ \A j \in (i + 1)..Len(keys) : keys[j] # key
  IN  [heap |-> st.heap,
       data |-> [n \in 1..Len(order) |-> st.data[last(order[n])]]]

\* the uniqueRows Map of the duplicate branch: keys in order of first
\* insertion, each holding the row set last under that key
RemoveDuplicates(st) ==
  LET keys == [i \in 1..Len(st.data) |-> JSONstringify(st.heap[st.data[i]])]
      order == Distinct(keys, 1)
      last(key) == CHOOSE i \in 1..Len(keys) :
                     /\ keys[i] = key
                     /\ \A j \in (i + 1)..Len(keys) : keys[j] # key
  IN  [heap |-> st.heap,
       data |-> [n \in 1..Len(order) |-> st.data[last(order[n])]]]

\* FillValue without the median branch
FillValueNoMedian(column) ==
  IF column.mode # Undefined THEN column.mode
  ELSE IF column.type = "number" THEN Num(0)
  ELSE Str(<<"U", "n", "k", "n", "o", "w", "n">>)
\* FillValue with the empty string as the placeholder of a text column
FillValueEmptyPlaceholder(column) ==
  IF column.type = "number" /\ column.median # Undefined THEN column.median
  ELSE IF column.mode # Undefined THEN column.mode
  ELSE IF column.type = "number" THEN Num(0)
  ELSE Str(<<>>)

\* the value a missing cell of the column is filled with
FillValue(column) ==
  IF column.type = "number" /\ column.median # Undefined THEN column.median
  ELSE IF column.mode # Undefined THEN column.mode
  ELSE IF column.type = "number" THEN Num(0)
  ELSE Str(<<"U", "n", "k", "n", "o", "w", "n">>)

\* FillMissing writing the fill into the row object itself (newRow = row)
RECURSIVE FillMissingInPlace(_, _, _, _)
FillMissingInPlace(st, name, column, i) ==
  IF i > Len(st.data) THEN st
  ELSE LET row == st.heap[st.data[i]]
       IN  IF IsMissing(Get(row, name))
           THEN FillMissingInPlace(
                  [heap |-> [st.heap EXCEPT ![st.data[i]] = Put(row, name, FillValue(column))],
                   data |-> st.data],
                  name, column, i + 1)
           ELSE FillMissingInPlace(st, name, column, i + 1)

\* cleanedData.map of the missing branch over rows i..: a missing cell makes a
\* new row object {...row} with the cell filled, any other row is kept as is
RECURSIVE FillMissing(_, _, _, _)
FillMissing(st, name, column, i) ==
  IF i > Len(st.data) THEN st
  ELSE LET row == st.heap[st.data[i]]
       IN  IF IsMissing(Get(row, name))
           THEN LET newRow == Put(row, name, FillValue(column))
                    addr == Len(st.heap) + 1
                IN  FillMissing([heap |-> Append(st.heap, newRow),
                                 data |-> [st.data EXCEPT ![i] = addr]],
                                name, column, i + 1)
           ELSE FillMissing(st, name, column, i + 1)

\* CapOutliers replacing a cell above the cap by the median, not by the cap
RECURSIVE CapOutliersToMedian(_, _, _, _)
CapOutliersToMedian(st, name, cap, i) ==
  IF i > Len(st.data) THEN st
  ELSE LET row == st.heap[st.data[i]]
           cell == Get(row, name)
       IN  IF cell.t = "number" /\ JSGt(cell, cap)
           THEN LET newRow == Define(row, name, JSDiv(cap, Num(3)))
                    addr == Len(st.heap) + 1
                IN  CapOutliersToMedian([heap |-> Append(st.heap, newRow),
                                         data |-> [st.data EXCEPT ![i] = addr]],
                                        name, cap, i + 1)
           ELSE CapOutliersToMedian(st, name, cap, i + 1)

\* cleanedData.map of the outlier branch over rows i..: a numeric cell above
\* the cap makes a new row object {...row, [name]: cap}
RECURSIVE CapOutliers(_, _, _, _)
CapOutliers(st, name, cap, i) ==
  IF i > Len(st.data) THEN st
  ELSE LET row == st.heap[st.data[i]]
           cell == Get(row, name)
       IN  IF cell.t = "number" /\ JSGt(cell, cap)
           THEN LET newRow == Define(row, name, cap)
                    addr == Len(st.heap) + 1
                IN  CapOutliers([heap |-> Append(st.heap, newRow),
                                 data |-> [st.data EXCEPT ![i] = addr]],
                                name, cap, i + 1)
           ELSE CapOutliers(st, name, cap, i + 1)

\* ApplySuggestion without the tests of autoFix
ApplySuggestionAnyAutoFix(st, profile, suggestion) ==
  IF suggestion.issue = "duplicate"
  THEN RemoveDuplicates(st)
  ELSE IF suggestion.issue = "missing"
  THEN LET c == FindColumn(profile, suggestion.column)
       IN  IF c = 0 THEN st
           ELSE FillMissing(st, suggestion.column, profile.columns[c], 1)
  ELSE IF suggestion.issue = "outlier"
  THEN LET c == FindColumn(profile, suggestion.column)
       IN  IF c = 0 THEN st
           ELSE IF profile.columns[c].type # "number" \/ profile.columns[c].median = Undefined
           THEN st
           ELSE CapOutliers(st, suggestion.column, JSMul(profile.columns[c].median, Num(3)), 1)
  ELSE st

\* the body of selectedSuggestions.forEach for one suggestion;
\* st = [heap, data] is the heap and the cleanedData array
ApplySuggestion(st, profile, suggestion) ==
  IF suggestion.issue = "duplicate" /\ suggestion.autoFix
  THEN RemoveDuplicates(st)
  ELSE IF suggestion.issue = "missing" /\ suggestion.autoFix
  THEN LET c == FindColumn(profile, suggestion.column)
       IN  IF c = 0 THEN st
           ELSE FillMissing(st, suggestion.column, profile.columns[c], 1)
  ELSE IF suggestion.issue = "outlier" /\ suggestion.autoFix
  THEN LET c == FindColumn(profile, suggestion.column)
       IN  IF c = 0 THEN st
           ELSE IF profile.columns[c].type # "number" \/ profile.columns[c].median = Undefined
           THEN st
           ELSE CapOutliers(st, suggestion.column, JSMul(profile.columns[c].median, Num(3)), 1)
  ELSE st

\* CleanSteps with every suggestion applied to the data array it started from
CleanStepsFromStart(st, profile, selectedSuggestions, n) ==
  IF n = 0 THEN st
  ELSE ApplySuggestion(st, profile, selectedSuggestions[n])

\* the intermediate [heap, data] after the first n selected suggestions
RECURSIVE CleanSteps(_, _, _, _)
CleanSteps(st, profile, selectedSuggestions, n) ==
  IF n = 0 THEN st
  ELSE ApplySuggestion(CleanSteps(st, profile, selectedSuggestions, n - 1),
                       profile, selectedSuggestions[n])

\* cleanDataset(dataset, profile, selectedSuggestions) run on heap: the heap
\* after the call and the data array of the returned dataset
cleanDataset(heap, dataset, profile, selectedSuggestions) ==
  CleanSteps([heap |-> heap, data |-> dataset.data], profile,
             selectedSuggestions, Len(selectedSuggestions))

(* ------------------------------- export -------------------------------- *)

\* text with every quote character doubled: the i-th character lands behind
\* the i - 1 characters before it and the quotes added for them
Doubled(text) ==
  LET quotes(i) == Cardinality({k \in 1..(i - 1) : text[k] = "\""})
      total == Len(text) + quotes(Len(text) + 1)
  IN  [j \in 1..total |->
         text[CHOOSE i \in 1..Len(text) :
                /\ i + quotes(i) <= j
                /\ j <= i + quotes(i) + (IF text[i] = "\"" THEN 1 ELSE 0)]]

\* safe(str) of Papa.unparse, the text of one CSV cell: null and undefined
\* are empty, any other value is its toString() with the quotes doubled, put
\* in quotes when it holds a delimiter, a quote, a line break or an outer space
Quoted(escapedQuoteStr) ==
  LET needsQuotes ==
        \/ \E i \in 1..Len(escapedQuoteStr) :
             escapedQuoteStr[i] \in {",", "\"", "\n", "\r"}
        \/ /\ Len(escapedQuoteStr) > 0
           /\ \/ escapedQuoteStr[1] = " "
              \/ escapedQuoteStr[Len(escapedQuoteStr)] = " "
  IN  IF needsQuotes THEN <<"\"">> \o escapedQuoteStr \o <<"\"">>
      ELSE escapedQuoteStr

CSVCell(v) ==
  IF v.t = "null" \/ v.t = "undefined" THEN <<>>
  ELSE Quoted(Doubled(JSString(v)))

\* Object.keys(row)
Keys(row) == [i \in 1..Len(row) |-> OwnOrder(row)[i].k]

\* the texts of cells put one behind the other with sep between them
RECURSIVE Joined(_, _)
Joined(cells, sep) ==
  IF cells = <<>> THEN <<>>
  ELSE IF Len(cells) = 1 THEN cells[1]
  ELSE Joined(SubSeq(cells, 1, Len(cells) - 1), sep) \o sep \o cells[Len(cells)]

\* the line serialize writes for one row: the cells of the header fields,
\* with the delimiter between them unless the row has no key of its own
CSVLine(fields, row) ==
  LET nullLine == Len(Keys(row)) = 0
      cells == [col \in 1..Len(fields) |-> CSVCell(Get(row, fields[col]))]
  IN  Joined(cells, IF nullLine THEN <<>> ELSE <<",">>)

\* convertToCSV(dataset) = Papa.unparse(dataset.data), the text of the file:
\* nothing for an empty array; otherwise the keys of the first row as the
\* header line, left out when the first row has no key, then one line per
\* row with the cells of those keys, the lines separated by \r\n.
\* Serialized is that text for the header fields and the rows.
Serialized(fields, rows) ==
  Joined((IF Len(fields) > 0
          THEN <<Joined([i \in 1..Len(fields) |-> CSVCell(Str(fields[i]))], <<",">>)>>
          ELSE <<>>)
         \o [row \in 1..Len(rows) |-> CSVLine(fields, rows[row])],
         <<"\r", "\n">>)

convertToCSV(rows) ==
  IF Len(rows) = 0 THEN <<>>
  ELSE Serialized(Keys(rows[1]), rows)

(* --------------------------- question answering ------------------------ *)

\* A string of this module holds the characters below U+0100 (the grave
\* accent excepted) and those whose
\* code ends in 80 to FF.  Upper lists the ones among them that have a
\* lower-case form of their own and Lower, at the same place, that form, as
\* the Unicode 17 case mappings give it.
Upper ==
  <<"A", "B", "C", "D", "E", "F", "G", "H", "I", "J", "K", "L", "M", "N",
    "O", "P", "Q", "R", "S", "T", "U", "V", "W", "X", "Y", "Z", "À", "Á",
    "Â", "Ã", "Ä", "Å", "Æ", "Ç", "È", "É", "Ê", "Ë", "Ì", "Í", "Î", "Ï",
    "Ð", "Ñ", "Ò", "Ó", "Ô", "Õ", "Ö", "Ø", "Ù", "Ú", "Û", "Ü", "Ý", "Þ",
    "Ƃ", "Ƅ", "Ƈ", "Ƌ", "Ǝ", "Ƒ", "Ƙ", "Ơ", "Ƣ", "Ƥ", "Ʀ", "Ƨ", "Ʃ", "Ƭ",
    "Ʈ", "Ư", "Ʊ", "Ʋ", "Ƴ", "Ƶ", "Ʒ", "Ƹ", "Ƽ", "Ǆ", "ǅ", "Ǉ", "ǈ", "Ǌ",
    "ǋ", "Ǎ", "Ǐ", "Ǒ", "Ǔ", "Ǖ", "Ǘ", "Ǚ", "Ǜ", "Ǟ", "Ǡ", "Ǣ", "Ǥ", "Ǧ",
    "Ǩ", "Ǫ", "Ǭ", "Ǯ", "Ǳ", "ǲ", "Ǵ", "Ƕ", "Ƿ", "Ǹ", "Ǻ", "Ǽ", "Ǿ", "Ά",
    "Έ", "Ή", "Ί", "Ό", "Ύ", "Ώ", "Α", "Β", "Γ", "Δ", "Ε", "Ζ", "Η", "Θ",
    "Ι", "Κ", "Λ", "Μ", "Ν", "Ξ", "Ο", "Π", "Ρ", "Σ", "Τ", "Υ", "Φ", "Χ",
    "Ψ", "Ω", "Ϊ", "Ϋ", "Ϗ", "Ϙ", "Ϛ", "Ϝ", "Ϟ", "Ϡ", "Ϣ", "Ϥ", "Ϧ", "Ϩ",
    "Ϫ", "Ϭ", "Ϯ", "ϴ", "Ϸ", "Ϲ", "Ϻ", "Ҁ", "Ҋ", "Ҍ", "Ҏ", "Ґ", "Ғ", "Ҕ",
    "Җ", "Ҙ", "Қ", "Ҝ", "Ҟ", "Ҡ", "Ң", "Ҥ", "Ҧ", "Ҩ", "Ҫ", "Ҭ", "Ү", "Ұ",
    "Ҳ", "Ҵ", "Ҷ", "Ҹ", "Һ", "Ҽ", "Ҿ", "Ӏ", "Ӂ", "Ӄ", "Ӆ", "Ӈ", "Ӊ", "Ӌ",
    "Ӎ", "Ӑ", "Ӓ", "Ӕ", "Ӗ", "Ә", "Ӛ", "Ӝ", "Ӟ", "Ӡ", "Ӣ", "Ӥ", "Ӧ", "Ө",
    "Ӫ", "Ӭ", "Ӯ", "Ӱ", "Ӳ", "Ӵ", "Ӷ", "Ӹ", "Ӻ", "Ӽ", "Ӿ", "Ꮀ", "Ꮁ", "Ꮂ",
    "Ꮃ", "Ꮄ", "Ꮅ", "Ꮆ", "Ꮇ", "Ꮈ", "Ꮉ", "Ꮊ", "Ꮋ", "Ꮌ", "Ꮍ", "Ꮎ", "Ꮏ", "Ꮐ",
    "Ꮑ", "Ꮒ", "Ꮓ", "Ꮔ", "Ꮕ", "Ꮖ", "Ꮗ", "Ꮘ", "Ꮙ", "Ꮚ", "Ꮛ", "Ꮜ", "Ꮝ", "Ꮞ",
    "Ꮟ", "Ꮠ", "Ꮡ", "Ꮢ", "Ꮣ", "Ꮤ", "Ꮥ", "Ꮦ", "Ꮧ", "Ꮨ", "Ꮩ", "Ꮪ", "Ꮫ", "Ꮬ",
    "Ꮭ", "Ꮮ", "Ꮯ", "Ꮰ", "Ꮱ", "Ꮲ", "Ꮳ", "Ꮴ", "Ꮵ", "Ꮶ", "Ꮷ", "Ꮸ", "Ꮹ", "Ꮺ",
    "Ꮻ", "Ꮼ", "Ꮽ", "Ꮾ", "Ꮿ", "Ᏸ", "Ᏹ", "Ᏺ", "Ᏻ", "Ᏼ", "Ᏽ", "Ᲊ", "Ა", "Ბ",
    "Გ", "Დ", "Ე", "Ვ", "Ზ", "Თ", "Ი", "Კ", "Ლ", "Მ", "Ნ", "Ო", "Პ", "Ჟ",
    "Რ", "Ს", "Ტ", "Უ", "Ფ", "Ქ", "Ღ", "Ყ", "Შ", "Ჩ", "Ც", "Ძ", "Წ", "Ჭ",
    "Ხ", "Ჯ", "Ჰ", "Ჱ", "Ჲ", "Ჳ", "Ჴ", "Ჵ", "Ჶ", "Ჷ", "Ჸ", "Ჹ", "Ჺ", "Ჽ",
    "Ჾ", "Ჿ", "Ẁ", "Ẃ", "Ẅ", "Ẇ", "Ẉ", "Ẋ", "Ẍ", "Ẏ", "Ẑ", "Ẓ", "Ẕ", "ẞ",
    "Ạ", "Ả", "Ấ", "Ầ", "Ẩ", "Ẫ", "Ậ", "Ắ", "Ằ", "Ẳ", "Ẵ", "Ặ", "Ẹ", "Ẻ",
    "Ẽ", "Ế", "Ề", "Ể", "Ễ", "Ệ", "Ỉ", "Ị", "Ọ", "Ỏ", "Ố", "Ồ", "Ổ", "Ỗ",
    "Ộ", "Ớ", "Ờ", "Ở", "Ỡ", "Ợ", "Ụ", "Ủ", "Ứ", "Ừ", "Ử", "Ữ", "Ự", "Ỳ",
    "Ỵ", "Ỷ", "Ỹ", "Ỻ", "Ỽ", "Ỿ", "ᾈ", "ᾉ", "ᾊ", "ᾋ", "ᾌ", "ᾍ", "ᾎ", "ᾏ",
    "ᾘ", "ᾙ", "ᾚ", "ᾛ", "ᾜ", "ᾝ", "ᾞ", "ᾟ", "ᾨ", "ᾩ", "ᾪ", "ᾫ", "ᾬ", "ᾭ",
    "ᾮ", "ᾯ", "Ᾰ", "Ᾱ", "ᾼ", "ῌ", "Ῐ", "Ῑ", "Ῠ", "Ῡ", "Ῥ", "ῼ", "Ↄ", "Ⓐ",
    "Ⓑ", "Ⓒ", "Ⓓ", "Ⓔ", "Ⓕ", "Ⓖ", "Ⓗ", "Ⓘ", "Ⓙ", "Ⓚ", "Ⓛ", "Ⓜ", "Ⓝ", "Ⓞ",
    "Ⓟ", "Ⓠ", "Ⓡ", "Ⓢ", "Ⓣ", "Ⓤ", "Ⓥ", "Ⓦ", "Ⓧ", "Ⓨ", "Ⓩ", "Ⲁ", "Ⲃ", "Ⲅ",
    "Ⲇ", "Ⲉ", "Ⲋ", "Ⲍ", "Ⲏ", "Ⲑ", "Ⲓ", "Ⲕ", "Ⲗ", "Ⲙ", "Ⲛ", "Ⲝ", "Ⲟ", "Ⲡ",
    "Ⲣ", "Ⲥ", "Ⲧ", "Ⲩ", "Ⲫ", "Ⲭ", "Ⲯ", "Ⲱ", "Ⲳ", "Ⲵ", "Ⲷ", "Ⲹ", "Ⲻ", "Ⲽ",
    "Ⲿ", "Ⳁ", "Ⳃ", "Ⳅ", "Ⳇ", "Ⳉ", "Ⳋ", "Ⳍ", "Ⳏ", "Ⳑ", "Ⳓ", "Ⳕ", "Ⳗ", "Ⳙ",
    "Ⳛ", "Ⳝ", "Ⳟ", "Ⳡ", "Ⳣ", "Ⳬ", "Ⳮ", "Ⳳ", "Ꚁ", "Ꚃ", "Ꚅ", "Ꚇ", "Ꚉ", "Ꚋ",
    "Ꚍ", "Ꚏ", "Ꚑ", "Ꚓ", "Ꚕ", "Ꚗ", "Ꚙ", "Ꚛ", "Ꞁ", "Ꞃ", "Ꞅ", "Ꞇ", "Ꞌ", "Ꞑ",
    "Ꞓ", "Ꞗ", "Ꞙ", "Ꞛ", "Ꞝ", "Ꞟ", "Ꞡ", "Ꞣ", "Ꞥ", "Ꞧ", "Ꞩ", "Ʞ", "Ʇ", "Ʝ",
    "Ꞵ", "Ꞷ", "Ꞹ", "Ꞻ", "Ꞽ", "Ꞿ", "Ꟁ", "Ꟃ", "Ꞔ", "Ʂ", "Ᶎ", "Ꟈ", "Ꟊ", "Ꟍ",
    "꟎", "Ꟑ", "꟒", "꟔", "Ꟗ", "Ꟙ", "Ꟛ", "Ƛ", "Ꟶ">>

Lower ==
  <<"a", "b", "c", "d", "e", "f", "g", "h", "i", "j", "k", "l", "m", "n",
    "o", "p", "q", "r", "s", "t", "u", "v", "w", "x", "y", "z", "à", "á",
    "â", "ã", "ä", "å", "æ", "ç", "è", "é", "ê", "ë", "ì", "í", "î", "ï",
    "ð", "ñ", "ò", "ó", "ô", "õ", "ö", "ø", "ù", "ú", "û", "ü", "ý", "þ",
    "ƃ", "ƅ", "ƈ", "ƌ", "ǝ", "ƒ", "ƙ", "ơ", "ƣ", "ƥ", "ʀ", "ƨ", "ʃ", "ƭ",
    "ʈ", "ư", "ʊ", "ʋ", "ƴ", "ƶ", "ʒ", "ƹ", "ƽ", "ǆ", "ǆ", "ǉ", "ǉ", "ǌ",
    "ǌ", "ǎ", "ǐ", "ǒ", "ǔ", "ǖ", "ǘ", "ǚ", "ǜ", "ǟ", "ǡ", "ǣ", "ǥ", "ǧ",
    "ǩ", "ǫ", "ǭ", "ǯ", "ǳ", "ǳ", "ǵ", "ƕ", "ƿ", "ǹ", "ǻ", "ǽ", "ǿ", "ά",
    "έ", "ή", "ί", "ό", "ύ", "ώ", "α", "β", "γ", "δ", "ε", "ζ", "η", "θ",
    "ι", "κ", "λ", "μ", "ν", "ξ", "ο", "π", "ρ", "σ", "τ", "υ", "φ", "χ",
    "ψ", "ω", "ϊ", "ϋ", "ϗ", "ϙ", "ϛ", "ϝ", "ϟ", "ϡ", "ϣ", "ϥ", "ϧ", "ϩ",
    "ϫ", "ϭ", "ϯ", "θ", "ϸ", "ϲ", "ϻ", "ҁ", "ҋ", "ҍ", "ҏ", "ґ", "ғ", "ҕ",
    "җ", "ҙ", "қ", "ҝ", "ҟ", "ҡ", "ң", "ҥ", "ҧ", "ҩ", "ҫ", "ҭ", "ү", "ұ",
    "ҳ", "ҵ", "ҷ", "ҹ", "һ", "ҽ", "ҿ", "ӏ", "ӂ", "ӄ", "ӆ", "ӈ", "ӊ", "ӌ",
    "ӎ", "ӑ", "ӓ", "ӕ", "ӗ", "ә", "ӛ", "ӝ", "ӟ", "ӡ", "ӣ", "ӥ", "ӧ", "ө",
    "ӫ", "ӭ", "ӯ", "ӱ", "ӳ", "ӵ", "ӷ", "ӹ", "ӻ", "ӽ", "ӿ", "ꮀ", "ꮁ", "ꮂ",
    "ꮃ", "ꮄ", "ꮅ", "ꮆ", "ꮇ", "ꮈ", "ꮉ", "ꮊ", "ꮋ", "ꮌ", "ꮍ", "ꮎ", "ꮏ", "ꮐ",
    "ꮑ", "ꮒ", "ꮓ", "ꮔ", "ꮕ", "ꮖ", "ꮗ", "ꮘ", "ꮙ", "ꮚ", "ꮛ", "ꮜ", "ꮝ", "ꮞ",
    "ꮟ", "ꮠ", "ꮡ", "ꮢ", "ꮣ", "ꮤ", "ꮥ", "ꮦ", "ꮧ", "ꮨ", "ꮩ", "ꮪ", "ꮫ", "ꮬ",
    "ꮭ", "ꮮ", "ꮯ", "ꮰ", "ꮱ", "ꮲ", "ꮳ", "ꮴ", "ꮵ", "ꮶ", "ꮷ", "ꮸ", "ꮹ", "ꮺ",
    "ꮻ", "ꮼ", "ꮽ", "ꮾ", "ꮿ", "ᏸ", "ᏹ", "ᏺ", "ᏻ", "ᏼ", "ᏽ", "ᲊ", "ა", "ბ",
    "გ", "დ", "ე", "ვ", "ზ", "თ", "ი", "კ", "ლ", "მ", "ნ", "ო", "პ", "ჟ",
    "რ", "ს", "ტ", "უ", "ფ", "ქ", "ღ", "ყ", "შ", "ჩ", "ც", "ძ", "წ", "ჭ",
    "ხ", "ჯ", "ჰ", "ჱ", "ჲ", "ჳ", "ჴ", "ჵ", "ჶ", "ჷ", "ჸ", "ჹ", "ჺ", "ჽ",
    "ჾ", "ჿ", "ẁ", "ẃ", "ẅ", "ẇ", "ẉ", "ẋ", "ẍ", "ẏ", "ẑ", "ẓ", "ẕ", "ß",
    "ạ", "ả", "ấ", "ầ", "ẩ", "ẫ", "ậ", "ắ", "ằ", "ẳ", "ẵ", "ặ", "ẹ", "ẻ",
    "ẽ", "ế", "ề", "ể", "ễ", "ệ", "ỉ", "ị", "ọ", "ỏ", "ố", "ồ", "ổ", "ỗ",
    "ộ", "ớ", "ờ", "ở", "ỡ", "ợ", "ụ", "ủ", "ứ", "ừ", "ử", "ữ", "ự", "ỳ",
    "ỵ", "ỷ", "ỹ", "ỻ", "ỽ", "ỿ", "ᾀ", "ᾁ", "ᾂ", "ᾃ", "ᾄ", "ᾅ", "ᾆ", "ᾇ",
    "ᾐ", "ᾑ", "ᾒ", "ᾓ", "ᾔ", "ᾕ", "ᾖ", "ᾗ", "ᾠ", "ᾡ", "ᾢ", "ᾣ", "ᾤ", "ᾥ",
    "ᾦ", "ᾧ", "ᾰ", "ᾱ", "ᾳ", "ῃ", "ῐ", "ῑ", "ῠ", "ῡ", "ῥ", "ῳ", "ↄ", "ⓐ",
    "ⓑ", "ⓒ", "ⓓ", "ⓔ", "ⓕ", "ⓖ", "ⓗ", "ⓘ", "ⓙ", "ⓚ", "ⓛ", "ⓜ", "ⓝ", "ⓞ",
    "ⓟ", "ⓠ", "ⓡ", "ⓢ", "ⓣ", "ⓤ", "ⓥ", "ⓦ", "ⓧ", "ⓨ", "ⓩ", "ⲁ", "ⲃ", "ⲅ",
    "ⲇ", "ⲉ", "ⲋ", "ⲍ", "ⲏ", "ⲑ", "ⲓ", "ⲕ", "ⲗ", "ⲙ", "ⲛ", "ⲝ", "ⲟ", "ⲡ",
    "ⲣ", "ⲥ", "ⲧ", "ⲩ", "ⲫ", "ⲭ", "ⲯ", "ⲱ", "ⲳ", "ⲵ", "ⲷ", "ⲹ", "ⲻ", "ⲽ",
    "ⲿ", "ⳁ", "ⳃ", "ⳅ", "ⳇ", "ⳉ", "ⳋ", "ⳍ", "ⳏ", "ⳑ", "ⳓ", "ⳕ", "ⳗ", "ⳙ",
    "ⳛ", "ⳝ", "ⳟ", "ⳡ", "ⳣ", "ⳬ", "ⳮ", "ⳳ", "ꚁ", "ꚃ", "ꚅ", "ꚇ", "ꚉ", "ꚋ",
    "ꚍ", "ꚏ", "ꚑ", "ꚓ", "ꚕ", "ꚗ", "ꚙ", "ꚛ", "ꞁ", "ꞃ", "ꞅ", "ꞇ", "ꞌ", "ꞑ",
    "ꞓ", "ꞗ", "ꞙ", "ꞛ", "ꞝ", "ꞟ", "ꞡ", "ꞣ", "ꞥ", "ꞧ", "ꞩ", "ʞ", "ʇ", "ʝ",
    "ꞵ", "ꞷ", "ꞹ", "ꞻ", "ꞽ", "ꞿ", "ꟁ", "ꟃ", "ꞔ", "ʂ", "ᶎ", "ꟈ", "ꟊ", "ꟍ",
    "꟏", "ꟑ", "ꟓ", "ꟕ", "ꟗ", "ꟙ", "ꟛ", "ƛ", "ꟶ">>

\* the characters whose lower-case form no string of this module can hold
NoLower ==
  {"Ɓ", "Ɔ", "Ɖ", "Ɗ", "Ə", "Ɛ", "Ɠ", "Ɣ", "Ɩ", "Ɨ", "Ɯ", "Ɲ", "Ɵ", "Ͻ",
   "Ͼ", "Ͽ", "Ⴀ", "Ⴁ", "Ⴂ", "Ⴃ", "Ⴄ", "Ⴅ", "Ⴆ", "Ⴇ", "Ⴈ", "Ⴉ", "Ⴊ", "Ⴋ",
   "Ⴌ", "Ⴍ", "Ⴎ", "Ⴏ", "Ⴐ", "Ⴑ", "Ⴒ", "Ⴓ", "Ⴔ", "Ⴕ", "Ⴖ", "Ⴗ", "Ⴘ", "Ⴙ",
   "Ⴚ", "Ⴛ", "Ⴜ", "Ⴝ", "Ⴞ", "Ⴟ", "Ⴠ", "Ⴡ", "Ⴢ", "Ⴣ", "Ⴤ", "Ⴥ", "Ⴧ", "Ⴭ",
   "Ꭰ", "Ꭱ", "Ꭲ", "Ꭳ", "Ꭴ", "Ꭵ", "Ꭶ", "Ꭷ", "Ꭸ", "Ꭹ", "Ꭺ", "Ꭻ", "Ꭼ", "Ꭽ",
   "Ꭾ", "Ꭿ", "Ὰ", "Ά", "Ὲ", "Έ", "Ὴ", "Ή", "Ὶ", "Ί", "Ὺ", "Ύ", "Ὸ", "Ό",
   "Ὼ", "Ώ", "Ɥ", "Ɦ", "Ɜ", "Ɡ", "Ɬ", "Ɪ", "Ꭓ", "Ɤ"}

\* the cased letters that are not case-ignorable, and the case-ignorable
\* characters: what the rule for a final sigma looks at
Cased ==
  {"A", "B", "C", "D", "E", "F", "G", "H", "I", "J", "K", "L", "M", "N",
   "O", "P", "Q", "R", "S", "T", "U", "V", "W", "X", "Y", "Z", "a", "b",
   "c", "d", "e", "f", "g", "h", "i", "j", "k", "l", "m", "n", "o", "p",
   "q", "r", "s", "t", "u", "v", "w", "x", "y", "z", "ª", "µ", "º", "À",
   "Á", "Â", "Ã", "Ä", "Å", "Æ", "Ç", "È", "É", "Ê", "Ë", "Ì", "Í", "Î",
   "Ï", "Ð", "Ñ", "Ò", "Ó", "Ô", "Õ", "Ö", "Ø", "Ù", "Ú", "Û", "Ü", "Ý",
   "Þ", "ß", "à", "á", "â", "ã", "ä", "å", "æ", "ç", "è", "é", "ê", "ë",
   "ì", "í", "î", "ï", "ð", "ñ", "ò", "ó", "ô", "õ", "ö", "ø", "ù", "ú",
   "û", "ü", "ý", "þ", "ÿ", "ƀ", "Ɓ", "Ƃ", "ƃ", "Ƅ", "ƅ", "Ɔ", "Ƈ", "ƈ",
   "Ɖ", "Ɗ", "Ƌ", "ƌ", "ƍ", "Ǝ", "Ə", "Ɛ", "Ƒ", "ƒ", "Ɠ", "Ɣ", "ƕ", "Ɩ",
   "Ɨ", "Ƙ", "ƙ", "ƚ", "ƛ", "Ɯ", "Ɲ", "ƞ", "Ɵ", "Ơ", "ơ", "Ƣ", "ƣ", "Ƥ",
   "ƥ", "Ʀ", "Ƨ", "ƨ", "Ʃ", "ƪ", "ƫ", "Ƭ", "ƭ", "Ʈ", "Ư", "ư", "Ʊ", "Ʋ",
   "Ƴ", "ƴ", "Ƶ", "ƶ", "Ʒ", "Ƹ", "ƹ", "ƺ", "Ƽ", "ƽ", "ƾ", "ƿ", "Ǆ", "ǅ",
   "ǆ", "Ǉ", "ǈ", "ǉ", "Ǌ", "ǋ", "ǌ", "Ǎ", "ǎ", "Ǐ", "ǐ", "Ǒ", "ǒ", "Ǔ",
   "ǔ", "Ǖ", "ǖ", "Ǘ", "ǘ", "Ǚ", "ǚ", "Ǜ", "ǜ", "ǝ", "Ǟ", "ǟ", "Ǡ", "ǡ",
   "Ǣ", "ǣ", "Ǥ", "ǥ", "Ǧ", "ǧ", "Ǩ", "ǩ", "Ǫ", "ǫ", "Ǭ", "ǭ", "Ǯ", "ǯ",
   "ǰ", "Ǳ", "ǲ", "ǳ", "Ǵ", "ǵ", "Ƕ", "Ƿ", "Ǹ", "ǹ", "Ǻ", "ǻ", "Ǽ", "ǽ",
   "Ǿ", "ǿ", "ʀ", "ʁ", "ʂ", "ʃ", "ʄ", "ʅ", "ʆ", "ʇ", "ʈ", "ʉ", "ʊ", "ʋ",
   "ʌ", "ʍ", "ʎ", "ʏ", "ʐ", "ʑ", "ʒ", "ʓ", "ʖ", "ʗ", "ʘ", "ʙ", "ʚ", "ʛ",
   "ʜ", "ʝ", "ʞ", "ʟ", "ʠ", "ʡ", "ʢ", "ʣ", "ʤ", "ʥ", "ʦ", "ʧ", "ʨ", "ʩ",
   "ʪ", "ʫ", "ʬ", "ʭ", "ʮ", "ʯ", "Ά", "Έ", "Ή", "Ί", "Ό", "Ύ", "Ώ", "ΐ",
   "Α", "Β", "Γ", "Δ", "Ε", "Ζ", "Η", "Θ", "Ι", "Κ", "Λ", "Μ", "Ν", "Ξ",
   "Ο", "Π", "Ρ", "Σ", "Τ", "Υ", "Φ", "Χ", "Ψ", "Ω", "Ϊ", "Ϋ", "ά", "έ",
   "ή", "ί", "ΰ", "α", "β", "γ", "δ", "ε", "ζ", "η", "θ", "ι", "κ", "λ",
   "μ", "ν", "ξ", "ο", "π", "ρ", "ς", "σ", "τ", "υ", "φ", "χ", "ψ", "ω",
   "ϊ", "ϋ", "ό", "ύ", "ώ", "Ϗ", "ϐ", "ϑ", "ϒ", "ϓ", "ϔ", "ϕ", "ϖ", "ϗ",
   "Ϙ", "ϙ", "Ϛ", "ϛ", "Ϝ", "ϝ", "Ϟ", "ϟ", "Ϡ", "ϡ", "Ϣ", "ϣ", "Ϥ", "ϥ",
   "Ϧ", "ϧ", "Ϩ", "ϩ", "Ϫ", "ϫ", "Ϭ", "ϭ", "Ϯ", "ϯ", "ϰ", "ϱ", "ϲ", "ϳ",
   "ϴ", "ϵ", "Ϸ", "ϸ", "Ϲ", "Ϻ", "ϻ", "ϼ", "Ͻ", "Ͼ", "Ͽ", "Ҁ", "ҁ", "Ҋ",
   "ҋ", "Ҍ", "ҍ", "Ҏ", "ҏ", "Ґ", "ґ", "Ғ", "ғ", "Ҕ", "ҕ", "Җ", "җ", "Ҙ",
   "ҙ", "Қ", "қ", "Ҝ", "ҝ", "Ҟ", "ҟ", "Ҡ", "ҡ", "Ң", "ң", "Ҥ", "ҥ", "Ҧ",
   "ҧ", "Ҩ", "ҩ", "Ҫ", "ҫ", "Ҭ", "ҭ", "Ү", "ү", "Ұ", "ұ", "Ҳ", "ҳ", "Ҵ",
   "ҵ", "Ҷ", "ҷ", "Ҹ", "ҹ", "Һ", "һ", "Ҽ", "ҽ", "Ҿ", "ҿ", "Ӏ", "Ӂ", "ӂ",
   "Ӄ", "ӄ", "Ӆ", "ӆ", "Ӈ", "ӈ", "Ӊ", "ӊ", "Ӌ", "ӌ", "Ӎ", "ӎ", "ӏ", "Ӑ",
   "ӑ", "Ӓ", "ӓ", "Ӕ", "ӕ", "Ӗ", "ӗ", "Ә", "ә", "Ӛ", "ӛ", "Ӝ", "ӝ", "Ӟ",
   "ӟ", "Ӡ", "ӡ", "Ӣ", "ӣ", "Ӥ", "ӥ", "Ӧ", "ӧ", "Ө", "ө", "Ӫ", "ӫ", "Ӭ",
   "ӭ", "Ӯ", "ӯ", "Ӱ", "ӱ", "Ӳ", "ӳ", "Ӵ", "ӵ", "Ӷ", "ӷ", "Ӹ", "ӹ", "Ӻ",
   "ӻ", "Ӽ", "ӽ", "Ӿ", "ӿ", "ր", "ց", "ւ", "փ", "ք", "օ", "ֆ", "և", "ֈ",
   "Ⴀ", "Ⴁ", "Ⴂ", "Ⴃ", "Ⴄ", "Ⴅ", "Ⴆ", "Ⴇ", "Ⴈ", "Ⴉ", "Ⴊ", "Ⴋ", "Ⴌ", "Ⴍ",
   "Ⴎ", "Ⴏ", "Ⴐ", "Ⴑ", "Ⴒ", "Ⴓ", "Ⴔ", "Ⴕ", "Ⴖ", "Ⴗ", "Ⴘ", "Ⴙ", "Ⴚ", "Ⴛ",
   "Ⴜ", "Ⴝ", "Ⴞ", "Ⴟ", "Ⴠ", "Ⴡ", "Ⴢ", "Ⴣ", "Ⴤ", "Ⴥ", "Ⴧ", "Ⴭ", "ა", "ბ",
   "გ", "დ", "ე", "ვ", "ზ", "თ", "ი", "კ", "ლ", "მ", "ნ", "ო", "პ", "ჟ",
   "რ", "ს", "ტ", "უ", "ფ", "ქ", "ღ", "ყ", "შ", "ჩ", "ც", "ძ", "წ", "ჭ",
   "ხ", "ჯ", "ჰ", "ჱ", "ჲ", "ჳ", "ჴ", "ჵ", "ჶ", "ჷ", "ჸ", "ჹ", "ჺ", "ჽ",
   "ჾ", "ჿ", "Ꭰ", "Ꭱ", "Ꭲ", "Ꭳ", "Ꭴ", "Ꭵ", "Ꭶ", "Ꭷ", "Ꭸ", "Ꭹ", "Ꭺ", "Ꭻ",
   "Ꭼ", "Ꭽ", "Ꭾ", "Ꭿ", "Ꮀ", "Ꮁ", "Ꮂ", "Ꮃ", "Ꮄ", "Ꮅ", "Ꮆ", "Ꮇ", "Ꮈ", "Ꮉ",
   "Ꮊ", "Ꮋ", "Ꮌ", "Ꮍ", "Ꮎ", "Ꮏ", "Ꮐ", "Ꮑ", "Ꮒ", "Ꮓ", "Ꮔ", "Ꮕ", "Ꮖ", "Ꮗ",
   "Ꮘ", "Ꮙ", "Ꮚ", "Ꮛ", "Ꮜ", "Ꮝ", "Ꮞ", "Ꮟ", "Ꮠ", "Ꮡ", "Ꮢ", "Ꮣ", "Ꮤ", "Ꮥ",
   "Ꮦ", "Ꮧ", "Ꮨ", "Ꮩ", "Ꮪ", "Ꮫ", "Ꮬ", "Ꮭ", "Ꮮ", "Ꮯ", "Ꮰ", "Ꮱ", "Ꮲ", "Ꮳ",
   "Ꮴ", "Ꮵ", "Ꮶ", "Ꮷ", "Ꮸ", "Ꮹ", "Ꮺ", "Ꮻ", "Ꮼ", "Ꮽ", "Ꮾ", "Ꮿ", "Ᏸ", "Ᏹ",
   "Ᏺ", "Ᏻ", "Ᏼ", "Ᏽ", "ᏸ", "ᏹ", "ᏺ", "ᏻ", "ᏼ", "ᏽ", "ᲀ", "ᲁ", "ᲂ", "ᲃ",
   "ᲄ", "ᲅ", "ᲆ", "ᲇ", "ᲈ", "Ᲊ", "ᲊ", "Ა", "Ბ", "Გ", "Დ", "Ე", "Ვ", "Ზ",
   "Თ", "Ი", "Კ", "Ლ", "Მ", "Ნ", "Ო", "Პ", "Ჟ", "Რ", "Ს", "Ტ", "Უ", "Ფ",
   "Ქ", "Ღ", "Ყ", "Შ", "Ჩ", "Ც", "Ძ", "Წ", "Ჭ", "Ხ", "Ჯ", "Ჰ", "Ჱ", "Ჲ",
   "Ჳ", "Ჴ", "Ჵ", "Ჶ", "Ჷ", "Ჸ", "Ჹ", "Ჺ", "Ჽ", "Ჾ", "Ჿ", "ᶀ", "ᶁ", "ᶂ",
   "ᶃ", "ᶄ", "ᶅ", "ᶆ", "ᶇ", "ᶈ", "ᶉ", "ᶊ", "ᶋ", "ᶌ", "ᶍ", "ᶎ", "ᶏ", "ᶐ",
   "ᶑ", "ᶒ", "ᶓ", "ᶔ", "ᶕ", "ᶖ", "ᶗ", "ᶘ", "ᶙ", "ᶚ", "Ẁ", "ẁ", "Ẃ", "ẃ",
   "Ẅ", "ẅ", "Ẇ", "ẇ", "Ẉ", "ẉ", "Ẋ", "ẋ", "Ẍ", "ẍ", "Ẏ", "ẏ", "Ẑ", "ẑ",
   "Ẓ", "ẓ", "Ẕ", "ẕ", "ẖ", "ẗ", "ẘ", "ẙ", "ẚ", "ẛ", "ẜ", "ẝ", "ẞ", "ẟ",
   "Ạ", "ạ", "Ả", "ả", "Ấ", "ấ", "Ầ", "ầ", "Ẩ", "ẩ", "Ẫ", "ẫ", "Ậ", "ậ",
   "Ắ", "ắ", "Ằ", "ằ", "Ẳ", "ẳ", "Ẵ", "ẵ", "Ặ", "ặ", "Ẹ", "ẹ", "Ẻ", "ẻ",
   "Ẽ", "ẽ", "Ế", "ế", "Ề", "ề", "Ể", "ể", "Ễ", "ễ", "Ệ", "ệ", "Ỉ", "ỉ",
   "Ị", "ị", "Ọ", "ọ", "Ỏ", "ỏ", "Ố", "ố", "Ồ", "ồ", "Ổ", "ổ", "Ỗ", "ỗ",
   "Ộ", "ộ", "Ớ", "ớ", "Ờ", "ờ", "Ở", "ở", "Ỡ", "ỡ", "Ợ", "ợ", "Ụ", "ụ",
   "Ủ", "ủ", "Ứ", "ứ", "Ừ", "ừ", "Ử", "ử", "Ữ", "ữ", "Ự", "ự", "Ỳ", "ỳ",
   "Ỵ", "ỵ", "Ỷ", "ỷ", "Ỹ", "ỹ", "Ỻ", "ỻ", "Ỽ", "ỽ", "Ỿ", "ỿ", "ᾀ", "ᾁ",
   "ᾂ", "ᾃ", "ᾄ", "ᾅ", "ᾆ", "ᾇ", "ᾈ", "ᾉ", "ᾊ", "ᾋ", "ᾌ", "ᾍ", "ᾎ", "ᾏ",
   "ᾐ", "ᾑ", "ᾒ", "ᾓ", "ᾔ", "ᾕ", "ᾖ", "ᾗ", "ᾘ", "ᾙ", "ᾚ", "ᾛ", "ᾜ", "ᾝ",
   "ᾞ", "ᾟ", "ᾠ", "ᾡ", "ᾢ", "ᾣ", "ᾤ", "ᾥ", "ᾦ", "ᾧ", "ᾨ", "ᾩ", "ᾪ", "ᾫ",
   "ᾬ", "ᾭ", "ᾮ", "ᾯ", "ᾰ", "ᾱ", "ᾲ", "ᾳ", "ᾴ", "ᾶ", "ᾷ", "Ᾰ", "Ᾱ", "Ὰ",
   "Ά", "ᾼ", "ι", "ῂ", "ῃ", "ῄ", "ῆ", "ῇ", "Ὲ", "Έ", "Ὴ", "Ή", "ῌ", "ῐ",
   "ῑ", "ῒ", "ΐ", "ῖ", "ῗ", "Ῐ", "Ῑ", "Ὶ", "Ί", "ῠ", "ῡ", "ῢ", "ΰ", "ῤ",
   "ῥ", "ῦ", "ῧ", "Ῠ", "Ῡ", "Ὺ", "Ύ", "Ῥ", "ῲ", "ῳ", "ῴ", "ῶ", "ῷ", "Ὸ",
   "Ό", "Ὼ", "Ώ", "ῼ", "Ↄ", "ↄ", "Ⓐ", "Ⓑ", "Ⓒ", "Ⓓ", "Ⓔ", "Ⓕ", "Ⓖ", "Ⓗ",
   "Ⓘ", "Ⓙ", "Ⓚ", "Ⓛ", "Ⓜ", "Ⓝ", "Ⓞ", "Ⓟ", "Ⓠ", "Ⓡ", "Ⓢ", "Ⓣ", "Ⓤ", "Ⓥ",
   "Ⓦ", "Ⓧ", "Ⓨ", "Ⓩ", "ⓐ", "ⓑ", "ⓒ", "ⓓ", "ⓔ", "ⓕ", "ⓖ", "ⓗ", "ⓘ", "ⓙ",
   "ⓚ", "ⓛ", "ⓜ", "ⓝ", "ⓞ", "ⓟ", "ⓠ", "ⓡ", "ⓢ", "ⓣ", "ⓤ", "ⓥ", "ⓦ", "ⓧ",
   "ⓨ", "ⓩ", "Ⲁ", "ⲁ", "Ⲃ", "ⲃ", "Ⲅ", "ⲅ", "Ⲇ", "ⲇ", "Ⲉ", "ⲉ", "Ⲋ", "ⲋ",
   "Ⲍ", "ⲍ", "Ⲏ", "ⲏ", "Ⲑ", "ⲑ", "Ⲓ", "ⲓ", "Ⲕ", "ⲕ", "Ⲗ", "ⲗ", "Ⲙ", "ⲙ",
   "Ⲛ", "ⲛ", "Ⲝ", "ⲝ", "Ⲟ", "ⲟ", "Ⲡ", "ⲡ", "Ⲣ", "ⲣ", "Ⲥ", "ⲥ", "Ⲧ", "ⲧ",
   "Ⲩ", "ⲩ", "Ⲫ", "ⲫ", "Ⲭ", "ⲭ", "Ⲯ", "ⲯ", "Ⲱ", "ⲱ", "Ⲳ", "ⲳ", "Ⲵ", "ⲵ",
   "Ⲷ", "ⲷ", "Ⲹ", "ⲹ", "Ⲻ", "ⲻ", "Ⲽ", "ⲽ", "Ⲿ", "ⲿ", "Ⳁ", "ⳁ", "Ⳃ", "ⳃ",
   "Ⳅ", "ⳅ", "Ⳇ", "ⳇ", "Ⳉ", "ⳉ", "Ⳋ", "ⳋ", "Ⳍ", "ⳍ", "Ⳏ", "ⳏ", "Ⳑ", "ⳑ",
   "Ⳓ", "ⳓ", "Ⳕ", "ⳕ", "Ⳗ", "ⳗ", "Ⳙ", "ⳙ", "Ⳛ", "ⳛ", "Ⳝ", "ⳝ", "Ⳟ", "ⳟ",
   "Ⳡ", "ⳡ", "Ⳣ", "ⳣ", "ⳤ", "Ⳬ", "ⳬ", "Ⳮ", "ⳮ", "Ⳳ", "ⳳ", "Ꚁ", "ꚁ", "Ꚃ",
   "ꚃ", "Ꚅ", "ꚅ", "Ꚇ", "ꚇ", "Ꚉ", "ꚉ", "Ꚋ", "ꚋ", "Ꚍ", "ꚍ", "Ꚏ", "ꚏ", "Ꚑ",
   "ꚑ", "Ꚓ", "ꚓ", "Ꚕ", "ꚕ", "Ꚗ", "ꚗ", "Ꚙ", "ꚙ", "Ꚛ", "ꚛ", "Ꞁ", "ꞁ", "Ꞃ",
   "ꞃ", "Ꞅ", "ꞅ", "Ꞇ", "ꞇ", "Ꞌ", "ꞌ", "Ɥ", "ꞎ", "Ꞑ", "ꞑ", "Ꞓ", "ꞓ", "ꞔ",
   "ꞕ", "Ꞗ", "ꞗ", "Ꞙ", "ꞙ", "Ꞛ", "ꞛ", "Ꞝ", "ꞝ", "Ꞟ", "ꞟ", "Ꞡ", "ꞡ", "Ꞣ",
   "ꞣ", "Ꞥ", "ꞥ", "Ꞧ", "ꞧ", "Ꞩ", "ꞩ", "Ɦ", "Ɜ", "Ɡ", "Ɬ", "Ɪ", "ꞯ", "Ʞ",
   "Ʇ", "Ʝ", "Ꭓ", "Ꞵ", "ꞵ", "Ꞷ", "ꞷ", "Ꞹ", "ꞹ", "Ꞻ", "ꞻ", "Ꞽ", "ꞽ", "Ꞿ",
   "ꞿ", "Ꟁ", "ꟁ", "Ꟃ", "ꟃ", "Ꞔ", "Ʂ", "Ᶎ", "Ꟈ", "ꟈ", "Ꟊ", "ꟊ", "Ɤ", "Ꟍ",
   "ꟍ", "꟎", "꟏", "Ꟑ", "ꟑ", "꟒", "ꟓ", "꟔", "ꟕ", "Ꟗ", "ꟗ", "Ꟙ", "ꟙ", "Ꟛ",
   "ꟛ", "Ƛ", "Ꟶ", "ꟶ", "ꟺ", "ꮀ", "ꮁ", "ꮂ", "ꮃ", "ꮄ", "ꮅ", "ꮆ", "ꮇ", "ꮈ",
   "ꮉ", "ꮊ", "ꮋ", "ꮌ", "ꮍ", "ꮎ", "ꮏ", "ꮐ", "ꮑ", "ꮒ", "ꮓ", "ꮔ", "ꮕ", "ꮖ",
   "ꮗ", "ꮘ", "ꮙ", "ꮚ", "ꮛ", "ꮜ", "ꮝ", "ꮞ", "ꮟ", "ꮠ", "ꮡ", "ꮢ", "ꮣ", "ꮤ",
   "ꮥ", "ꮦ", "ꮧ", "ꮨ", "ꮩ", "ꮪ", "ꮫ", "ꮬ", "ꮭ", "ꮮ", "ꮯ", "ꮰ", "ꮱ", "ꮲ",
   "ꮳ", "ꮴ", "ꮵ", "ꮶ", "ꮷ", "ꮸ", "ꮹ", "ꮺ", "ꮻ", "ꮼ", "ꮽ", "ꮾ", "ꮿ"}

CaseIgnorable ==
  {"'", ".", ":", "^", "¨", "­", "¯", "´", "·", "¸", "ʰ", "ʱ", "ʲ", "ʳ",
   "ʴ", "ʵ", "ʶ", "ʷ", "ʸ", "ʹ", "ʺ", "ʻ", "ʼ", "ʽ", "ʾ", "ʿ", "ˀ", "ˁ",
   "˂", "˃", "˄", "˅", "ˆ", "ˇ", "ˈ", "ˉ", "ˊ", "ˋ", "ˌ", "ˍ", "ˎ", "ˏ",
   "ː", "ˑ", "˒", "˓", "˔", "˕", "˖", "˗", "˘", "˙", "˚", "˛", "˜", "˝",
   "˞", "˟", "ˠ", "ˡ", "ˢ", "ˣ", "ˤ", "˥", "˦", "˧", "˨", "˩", "˪", "˫",
   "ˬ", "˭", "ˮ", "˯", "˰", "˱", "˲", "˳", "˴", "˵", "˶", "˷", "˸", "˹",
   "˺", "˻", "˼", "˽", "˾", "˿", "΄", "΅", "·", "҃", "҄", "҅", "҆", "҇",
   "҈", "҉", "֑", "֒", "֓", "֔", "֕", "֖", "֗", "֘", "֙", "֚", "֛", "֜",
   "֝", "֞", "֟", "֠", "֡", "֢", "֣", "֤", "֥", "֦", "֧", "֨", "֩", "֪",
   "֫", "֬", "֭", "֮", "֯", "ְ", "ֱ", "ֲ", "ֳ", "ִ", "ֵ", "ֶ", "ַ", "ָ",
   "ֹ", "ֺ", "ֻ", "ּ", "ֽ", "ֿ", "ׁ", "ׂ", "ׄ", "ׅ", "ׇ", "״", "ۖ", "ۗ",
   "ۘ", "ۙ", "ۚ", "ۛ", "ۜ", "۝", "۟", "۠", "ۡ", "ۢ", "ۣ", "ۤ", "ۥ", "ۦ",
   "ۧ", "ۨ", "۪", "۫", "۬", "ۭ", "ަ", "ާ", "ި", "ީ", "ު", "ޫ", "ެ", "ޭ",
   "ޮ", "ޯ", "ް", "߫", "߬", "߭", "߮", "߯", "߰", "߱", "߲", "߳", "ߴ", "ߵ",
   "ߺ", "߽", "࢈", "࢐", "࢑", "ࢗ", "࢘", "࢙", "࢚", "࢛", "࢜", "࢝", "࢞", "࢟",
   "ࣉ", "࣊", "࣋", "࣌", "࣍", "࣎", "࣏", "࣐", "࣑", "࣒", "࣓", "ࣔ", "ࣕ", "ࣖ",
   "ࣗ", "ࣘ", "ࣙ", "ࣚ", "ࣛ", "ࣜ", "ࣝ", "ࣞ", "ࣟ", "࣠", "࣡", "࣢", "ࣣ", "ࣤ",
   "ࣥ", "ࣦ", "ࣧ", "ࣨ", "ࣩ", "࣪", "࣫", "࣬", "࣭", "࣮", "࣯", "ࣰ", "ࣱ", "ࣲ",
   "ࣳ", "ࣴ", "ࣵ", "ࣶ", "ࣷ", "ࣸ", "ࣹ", "ࣺ", "ࣻ", "ࣼ", "ࣽ", "ࣾ", "ࣿ", "ঁ",
   "়", "ু", "ূ", "ৃ", "ৄ", "্", "ৢ", "ৣ", "৾", "ઁ", "ં", "઼", "ુ", "ૂ",
   "ૃ", "ૄ", "ૅ", "ે", "ૈ", "્", "ૢ", "ૣ", "ૺ", "ૻ", "ૼ", "૽", "૾", "૿",
   "ஂ", "ீ", "்", "ಁ", "಼", "ಿ", "ೆ", "ೌ", "್", "ೢ", "ೣ", "ඁ", "්", "ි",
   "ී", "ු", "ූ", "ັ", "ິ", "ີ", "ຶ", "ື", "ຸ", "ູ", "຺", "ົ", "ຼ", "ໆ",
   "່", "້", "໊", "໋", "໌", "ໍ", "໎", "ྀ", "ཱྀ", "ྂ", "ྃ", "྄", "྆", "྇",
   "ྍ", "ྎ", "ྏ", "ྐ", "ྑ", "ྒ", "ྒྷ", "ྔ", "ྕ", "ྖ", "ྗ", "ྙ", "ྚ", "ྛ",
   "ྜ", "ྜྷ", "ྞ", "ྟ", "ྠ", "ྡ", "ྡྷ", "ྣ", "ྤ", "ྥ", "ྦ", "ྦྷ", "ྨ", "ྩ",
   "ྪ", "ྫ", "ྫྷ", "ྭ", "ྮ", "ྯ", "ྰ", "ྱ", "ྲ", "ླ", "ྴ", "ྵ", "ྶ", "ྷ",
   "ྸ", "ྐྵ", "ྺ", "ྻ", "ྼ", "࿆", "ႂ", "ႅ", "ႆ", "ႍ", "ႝ", "ჼ", "឴", "឵",
   "ិ", "ី", "ឹ", "ឺ", "ុ", "ូ", "ួ", "ំ", "៉", "៊", "់", "៌", "៍", "៎",
   "៏", "័", "៑", "្", "៓", "ៗ", "៝", "ᢅ", "ᢆ", "ᢩ", "ᪧ", "᪰", "᪱", "᪲",
   "᪳", "᪴", "᪵", "᪶", "᪷", "᪸", "᪹", "᪺", "᪻", "᪼", "᪽", "᪾", "ᪿ", "ᫀ",
   "᫁", "᫂", "᫃", "᫄", "᫅", "᫆", "᫇", "᫈", "᫉", "᫊", "᫋", "ᫌ", "ᫍ", "ᫎ",
   "᫏", "᫐", "᫑", "᫒", "᫓", "᫔", "᫕", "᫖", "᫗", "᫘", "᫙", "᫚", "᫛", "᫜",
   "᫝", "᫠", "᫡", "᫢", "᫣", "᫤", "᫥", "᫦", "᫧", "᫨", "᫩", "᫪", "᫫", "ᮀ",
   "ᮁ", "ᮢ", "ᮣ", "ᮤ", "ᮥ", "ᮨ", "ᮩ", "᮫", "ᮬ", "ᮭ", "᯦", "ᯨ", "ᯩ", "ᯭ",
   "ᯯ", "ᯰ", "ᯱ", "᳐", "᳑", "᳒", "᳔", "᳕", "᳖", "᳗", "᳘", "᳙", "᳚", "᳛",
   "᳜", "᳝", "᳞", "᳟", "᳠", "᳢", "᳣", "᳤", "᳥", "᳦", "᳧", "᳨", "᳭", "᳴",
   "᳸", "᳹", "ᶛ", "ᶜ", "ᶝ", "ᶞ", "ᶟ", "ᶠ", "ᶡ", "ᶢ", "ᶣ", "ᶤ", "ᶥ", "ᶦ",
   "ᶧ", "ᶨ", "ᶩ", "ᶪ", "ᶫ", "ᶬ", "ᶭ", "ᶮ", "ᶯ", "ᶰ", "ᶱ", "ᶲ", "ᶳ", "ᶴ",
   "ᶵ", "ᶶ", "ᶷ", "ᶸ", "ᶹ", "ᶺ", "ᶻ", "ᶼ", "ᶽ", "ᶾ", "ᶿ", "᷀", "᷁", "᷂",
   "᷃", "᷄", "᷅", "᷆", "᷇", "᷈", "᷉", "᷊", "᷋", "᷌", "᷍", "᷎", "᷏", "᷐",
   "᷑", "᷒", "ᷓ", "ᷔ", "ᷕ", "ᷖ", "ᷗ", "ᷘ", "ᷙ", "ᷚ", "ᷛ", "ᷜ", "ᷝ", "ᷞ",
   "ᷟ", "ᷠ", "ᷡ", "ᷢ", "ᷣ", "ᷤ", "ᷥ", "ᷦ", "ᷧ", "ᷨ", "ᷩ", "ᷪ", "ᷫ", "ᷬ",
   "ᷭ", "ᷮ", "ᷯ", "ᷰ", "ᷱ", "ᷲ", "ᷳ", "ᷴ", "᷵", "᷶", "᷷", "᷸", "᷹", "᷺",
   "᷻", "᷼", "᷽", "᷾", "᷿", "᾽", "᾿", "῀", "῁", "῍", "῎", "῏", "῝", "῞",
   "῟", "῭", "΅", "`", "´", "῾", "ₐ", "ₑ", "ₒ", "ₓ", "ₔ", "ₕ", "ₖ", "ₗ",
   "ₘ", "ₙ", "ₚ", "ₛ", "ₜ", "⃐", "⃑", "⃒", "⃓", "⃔", "⃕", "⃖", "⃗", "⃘",
   "⃙", "⃚", "⃛", "⃜", "⃝", "⃞", "⃟", "⃠", "⃡", "⃢", "⃣", "⃤", "⃥", "⃦",
   "⃧", "⃨", "⃩", "⃪", "⃫", "⃬", "⃭", "⃮", "⃯", "⃰", "⳯", "⳰", "⳱", "ⷠ",
   "ⷡ", "ⷢ", "ⷣ", "ⷤ", "ⷥ", "ⷦ", "ⷧ", "ⷨ", "ⷩ", "ⷪ", "ⷫ", "ⷬ", "ⷭ", "ⷮ",
   "ⷯ", "ⷰ", "ⷱ", "ⷲ", "ⷳ", "ⷴ", "ⷵ", "ⷶ", "ⷷ", "ⷸ", "ⷹ", "ⷺ", "ⷻ", "ⷼ",
   "ⷽ", "ⷾ", "ⷿ", "゙", "゚", "゛", "゜", "ゝ", "ゞ", "ー", "ヽ", "ヾ", "ꓸ", "ꓹ",
   "ꓺ", "ꓻ", "ꓼ", "ꓽ", "ꚜ", "ꚝ", "ꚞ", "ꚟ", "꛰", "꛱", "ꞈ", "꞉", "꞊", "꟱",
   "ꟲ", "ꟳ", "ꟴ", "ꟸ", "ꟹ", "꣄", "ꣅ", "꣠", "꣡", "꣢", "꣣", "꣤", "꣥", "꣦",
   "꣧", "꣨", "꣩", "꣪", "꣫", "꣬", "꣭", "꣮", "꣯", "꣰", "꣱", "ꣿ", "ꦀ", "ꦁ",
   "ꦂ", "꦳", "ꦶ", "ꦷ", "ꦸ", "ꦹ", "ꦼ", "ꦽ", "ꧏ", "ꧥ", "ꧦ", "ꪰ", "ꪲ", "ꪳ",
   "ꪴ", "ꪷ", "ꪸ", "ꪾ", "꪿", "꫁", "ꫝ", "ꫬ", "ꫭ", "ꫳ", "ꫴ", "꫶", "ꯥ", "ꯨ",
   "꯭", "﮲", "﮳", "﮴", "﮵", "﮶", "﮷", "﮸", "﮹", "﮺", "﮻", "﮼", "﮽", "﮾",
   "﮿", "﯀", "﯁", "﯂", "﻿", "ﾞ", "ﾟ", "￣", "￹", "￺", "￻"}

\* the lower-case form of each character of Upper
LowerOf == [c \in {Upper[j] : j \in 1..Len(Upper)} |-> Lower[CHOOSE j \in 1..Len(Upper) : Upper[j] = c]]

\* a cased letter stands before place i of s, with case-ignorable characters
\* only between the two
AfterCased(s, i) ==
  \E j \in 1..(i - 1) :
    s[j] \in Cased /\ \A k \in (j + 1)..(i - 1) : s[k] \in CaseIgnorable

\* a cased letter stands behind place i of s, with case-ignorable characters
\* only between the two
BeforeCased(s, i) ==
  \E j \in (i + 1)..Len(s) :
    s[j] \in Cased /\ \A k \in (i + 1)..(j - 1) : s[k] \in CaseIgnorable

\* the capital sigma at place i of s ends a word
FinalSigma(s, i) == AfterCased(s, i) /\ ~BeforeCased(s, i)

\* the phrases generateAnswer looks for and the texts it answers with
MAXIMUM ==
  <<"m", "a", "x", "i", "m", "u", "m">>

MAX ==
  <<"m", "a", "x">>

HIGHEST ==
  <<"h", "i", "g", "h", "e", "s", "t">>

MINIMUM ==
  <<"m", "i", "n", "i", "m", "u", "m">>

MIN ==
  <<"m", "i", "n">>

LOWEST ==
  <<"l", "o", "w", "e", "s", "t">>

AVERAGE ==
  <<"a", "v", "e", "r", "a", "g", "e">>

MEAN ==
  <<"m", "e", "a", "n">>

UNIQUE ==
  <<"u", "n", "i", "q", "u", "e">>

DISTINCT ==
  <<"d", "i", "s", "t", "i", "n", "c", "t">>

MISSING ==
  <<"m", "i", "s", "s", "i", "n", "g">>

NULLWORD ==
  <<"n", "u", "l", "l">>

EMPTY ==
  <<"e", "m", "p", "t", "y">>

HOW_MANY_ROWS ==
  <<"h", "o", "w", " ", "m", "a", "n", "y", " ", "r", "o", "w", "s">>

HOW_MANY_RECORDS ==
  <<"h", "o", "w", " ", "m", "a", "n", "y", " ", "r", "e", "c", "o", "r",
    "d", "s">>

HOW_MANY_COLUMNS ==
  <<"h", "o", "w", " ", "m", "a", "n", "y", " ", "c", "o", "l", "u", "m",
    "n", "s">>

HOW_MANY_FIELDS ==
  <<"h", "o", "w", " ", "m", "a", "n", "y", " ", "f", "i", "e", "l", "d",
    "s">>

WHAT_COLUMNS ==
  <<"w", "h", "a", "t", " ", "c", "o", "l", "u", "m", "n", "s">>

WHAT_FIELDS ==
  <<"w", "h", "a", "t", " ", "f", "i", "e", "l", "d", "s">>

THERE_ARE ==
  <<"T", "h", "e", "r", "e", " ", "a", "r", "e", " ">>

ROWS_IN_THIS_DATASET ==
  <<" ", "r", "o", "w", "s", " ", "i", "n", " ", "t", "h", "i", "s", " ",
    "d", "a", "t", "a", "s", "e", "t", ".">>

COLUMNS_IN_THIS_DATASET ==
  <<" ", "c", "o", "l", "u", "m", "n", "s", " ", "i", "n", " ", "t", "h",
    "i", "s", " ", "d", "a", "t", "a", "s", "e", "t", ":", " ">>

THE_COLUMNS_ARE ==
  <<"T", "h", "e", " ", "c", "o", "l", "u", "m", "n", "s", " ", "i", "n",
    " ", "t", "h", "i", "s", " ", "d", "a", "t", "a", "s", "e", "t", " ",
    "a", "r", "e", ":", " ">>

THE_MAXIMUM ==
  <<"T", "h", "e", " ", "m", "a", "x", "i", "m", "u", "m", " ", "v", "a",
    "l", "u", "e", " ", "i", "n", " ", "t", "h", "e", " ">>

THE_MINIMUM ==
  <<"T", "h", "e", " ", "m", "i", "n", "i", "m", "u", "m", " ", "v", "a",
    "l", "u", "e", " ", "i", "n", " ", "t", "h", "e", " ">>

THE_AVERAGE ==
  <<"T", "h", "e", " ", "a", "v", "e", "r", "a", "g", "e", " ", "v", "a",
    "l", "u", "e", " ", "i", "n", " ", "t", "h", "e", " ">>

COLUMN_IS ==
  <<" ", "c", "o", "l", "u", "m", "n", " ", "i", "s", " ">>

UNIQUE_VALUES_IN ==
  <<" ", "u", "n", "i", "q", "u", "e", " ", "v", "a", "l", "u", "e", "s",
    " ", "i", "n", " ", "t", "h", "e", " ">>

COLUMN_DOT ==
  <<" ", "c", "o", "l", "u", "m", "n", ".">>

MISSING_VALUES ==
  <<" ", "m", "i", "s", "s", "i", "n", "g", " ", "v", "a", "l", "u", "e",
    "s", " ", "(">>

PERCENT_IN ==
  <<"%", ")", " ", "i", "n", " ", "t", "h", "e", " ">>

INFORMATION ==
  <<"I", "n", "f", "o", "r", "m", "a", "t", "i", "o", "n", " ", "a", "b",
    "o", "u", "t", " ">>

UNIQUE_VALUES_NL ==
  <<" ", "u", "n", "i", "q", "u", "e", " ", "v", "a", "l", "u", "e", "s",
    "\n", "-", " ">>

PERCENT_TYPE ==
  <<"%", ")", "\n", "-", " ", "T", "y", "p", "e", ":", " ">>

NOT_SURE ==
  <<"I", "'", "m", " ", "n", "o", "t", " ", "s", "u", "r", "e", " ", "h",
    "o", "w", " ", "t", "o", " ", "a", "n", "s", "w", "e", "r", " ", "t",
    "h", "a", "t", " ", "q", "u", "e", "s", "t", "i", "o", "n", " ", "a",
    "b", "o", "u", "t", " ", "y", "o", "u", "r", " ", "d", "a", "t", "a",
    ".", " ", "T", "r", "y", " ", "a", "s", "k", "i", "n", "g", " ", "a",
    "b", "o", "u", "t", " ", "s", "p", "e", "c", "i", "f", "i", "c", " ",
    "c", "o", "l", "u", "m", "n", "s", ",", " ", "r", "o", "w", " ", "c",
    "o", "u", "n", "t", "s", ",", " ", "o", "r", " ", "s", "t", "a", "t",
    "i", "s", "t", "i", "c", "s", " ", "l", "i", "k", "e", " ", "m", "a",
    "x", "i", "m", "u", "m", ",", " ", "m", "i", "n", "i", "m", "u", "m",
    ",", " ", "o", "r", " ", "a", "v", "e", "r", "a", "g", "e", " ", "v",
    "a", "l", "u", "e", "s", ".">>

\* s.toLowerCase(): every character with a lower-case form becomes that
\* form, a capital sigma the final sigma at the end of a word
toLowerCase(s) ==
  [i \in 1..Len(s) |->
     IF s[i] = "Σ" THEN (IF FinalSigma(s, i) THEN "ς" ELSE "σ")
     ELSE IF s[i] \in DOMAIN LowerOf THEN LowerOf[s[i]]
     ELSE IF s[i] \in NoLower THEN Unwritable
     ELSE s[i]]

\* s.includes(part)
includes(s, part) ==
  \E at \in 1..(Len(s) + 1) :
    /\ at + Len(part) - 1 <= Len(s)
    /\ \A j \in 1..Len(part) : s[at + j - 1] = part[j]

\* typeof v
typeof(v) ==
  IF v.t = "null" THEN <<"o", "b", "j", "e", "c", "t">>
  ELSE IF v.t = "number" THEN <<"n", "u", "m", "b", "e", "r">>
  ELSE IF v.t = "string" THEN <<"s", "t", "r", "i", "n", "g">>
  ELSE IF v.t = "boolean" THEN <<"b", "o", "o", "l", "e", "a", "n">>
  ELSE IF v.t = "function" THEN <<"f", "u", "n", "c", "t", "i", "o", "n">>
  ELSE IF v.t = "object" THEN <<"o", "b", "j", "e", "c", "t">>
  ELSE <<"u", "n", "d", "e", "f", "i", "n", "e", "d">>

\* fields.join(', ')
RECURSIVE join(_)
join(fields) ==
  IF fields = <<>> THEN <<>>
  ELSE IF Len(fields) = 1 THEN fields[1]
  ELSE fields[1] \o <<",", " ">> \o join(Tail(fields))

\* a returned answer, and the TypeError a read of a property of undefined raises
Answer(text) == [raised |-> FALSE, text |-> text]

TypeError == [raised |-> TRUE, text |-> <<>>]

\* the answer for the mentioned column, from the texts of its numbers
ColumnTexts(questionLower, rows, mentionedColumn, numbersFirst, hasNumeric, max, min, avg, uniqueCount, missingCount, percentage) ==
  LET quoted == <<"\"">> \o mentionedColumn \o <<"\"">>
      wantsMax == \/ includes(questionLower, MAXIMUM)
                  \/ includes(questionLower, MAX)
                  \/ includes(questionLower, HIGHEST)
      wantsMin == \/ includes(questionLower, MINIMUM)
                  \/ includes(questionLower, MIN)
                  \/ includes(questionLower, LOWEST)
      wantsAvg == includes(questionLower, AVERAGE) \/ includes(questionLower, MEAN)
      wantsUnique == includes(questionLower, UNIQUE) \/ includes(questionLower, DISTINCT)
      wantsMissing == \/ includes(questionLower, MISSING)
                      \/ includes(questionLower, NULLWORD)
                      \/ includes(questionLower, EMPTY)
  IN  IF wantsMax /\ numbersFirst
      THEN Answer(THE_MAXIMUM \o quoted \o COLUMN_IS \o max \o <<".">>)
      ELSE IF wantsMin /\ numbersFirst
      THEN Answer(THE_MINIMUM \o quoted \o COLUMN_IS \o min \o <<".">>)
      ELSE IF wantsAvg /\ hasNumeric
      THEN Answer(THE_AVERAGE \o quoted \o COLUMN_IS \o avg \o <<".">>)
      ELSE IF wantsUnique
      THEN Answer(THERE_ARE \o uniqueCount \o UNIQUE_VALUES_IN \o quoted \o COLUMN_DOT)
      ELSE IF wantsMissing
      THEN Answer(THERE_ARE \o missingCount \o MISSING_VALUES
                  \o percentage \o PERCENT_IN \o quoted \o COLUMN_DOT)
      ELSE IF Len(rows) = 0
      THEN TypeError   \* data[0] is undefined: data[0][mentionedColumn] throws
      ELSE Answer(INFORMATION \o quoted \o <<":", " ", "\n", "-", " ">>
                  \o uniqueCount \o UNIQUE_VALUES_NL
                  \o missingCount \o MISSING_VALUES
                  \o percentage \o PERCENT_TYPE
                  \o typeof(Get(rows[1], mentionedColumn)))

\* the numbers of the answer from the cells of the column: those that are
\* not null or undefined, taken as numbers by Math.max and Math.min, and
\* those that are numbers
ColumnNumbers(questionLower, rows, mentionedColumn, cells, present, numeric) ==
  ColumnTexts(questionLower, rows, mentionedColumn,
              Len(present) > 0 /\ present[1].t = "number", Len(numeric) > 0,
              NumChars(MathMax([i \in 1..Len(present) |-> ToNumber(present[i])])),
              NumChars(MathMin([i \in 1..Len(present) |-> ToNumber(present[i])])),
              toFixed2(JSDiv(SumOf(numeric), Num(Len(numeric)))),
              NatChars(Len(Distinct(cells, 1))),
              NatChars(FieldNulls(cells)),
              toFixed2(Percentage(FieldNulls(cells), Len(rows))))

ColumnCells(questionLower, rows, mentionedColumn, cells) ==
  ColumnNumbers(questionLower, rows, mentionedColumn, cells,
                FilterIdx(cells, {i \in 1..Len(cells) : cells[i].t # "null" /\ cells[i].t # "undefined"}, 1),
                FilterIdx(cells, {i \in 1..Len(cells) : cells[i].t = "number"}, 1))

\* the answer when Math.max and Math.min are handed every cell of the column
ColumnAnswerUnfiltered(questionLower, rows, mentionedColumn) ==
  ColumnNumbers(questionLower, rows, mentionedColumn,
                [i \in 1..Len(rows) |-> Get(rows[i], mentionedColumn)],
                [i \in 1..Len(rows) |-> Get(rows[i], mentionedColumn)],
                FilterIdx([i \in 1..Len(rows) |-> Get(rows[i], mentionedColumn)],
                          {i \in 1..Len(rows) : Get(rows[i], mentionedColumn).t = "number"}, 1))

\* the answer for the mentioned column
ColumnAnswer(questionLower, rows, mentionedColumn) ==
  ColumnCells(questionLower, rows, mentionedColumn,
              [i \in 1..Len(rows) |-> Get(rows[i], mentionedColumn)])

generateAnswerColumnFirst(question, fields, rows) ==
  LET questionLower == toLowerCase(question)
      mentions == {i \in 1..Len(fields) : includes(questionLower, toLowerCase(fields[i]))}
      \* fields.find(...): the first field the question mentions, '' for
      \* none; an empty field name is mentioned by every question, and
      \* counts as none in the condition
      mentionedColumn == IF mentions = {} THEN <<>>
                         ELSE fields[CHOOSE i \in mentions : \A j \in mentions : i <= j]
  IN  IF mentionedColumn # <<>>
      THEN ColumnAnswer(questionLower, rows, mentionedColumn)
      ELSE IF includes(questionLower, HOW_MANY_ROWS) \/ includes(questionLower, HOW_MANY_RECORDS)
      THEN Answer(THERE_ARE \o NatChars(Len(rows)) \o ROWS_IN_THIS_DATASET)
      ELSE IF includes(questionLower, HOW_MANY_COLUMNS) \/ includes(questionLower, HOW_MANY_FIELDS)
      THEN Answer(THERE_ARE \o NatChars(Len(fields)) \o COLUMNS_IN_THIS_DATASET
                  \o join(fields) \o <<".">>)
      ELSE IF includes(questionLower, WHAT_COLUMNS) \/ includes(questionLower, WHAT_FIELDS)
      THEN Answer(THE_COLUMNS_ARE \o join(fields) \o <<".">>)
      ELSE Answer(NOT_SURE)

generateAnswer(question, fields, rows) ==
  LET questionLower == toLowerCase(question)
      mentions == {i \in 1..Len(fields) : includes(questionLower, toLowerCase(fields[i]))}
      \* fields.find(...): the first field the question mentions, '' for
      \* none; an empty field name is mentioned by every question, and
      \* counts as none in the condition
      mentionedColumn == IF mentions = {} THEN <<>>
                         ELSE fields[CHOOSE i \in mentions : \A j \in mentions : i <= j]
  IN  IF includes(questionLower, HOW_MANY_ROWS) \/ includes(questionLower, HOW_MANY_RECORDS)
      THEN Answer(THERE_ARE \o NatChars(Len(rows)) \o ROWS_IN_THIS_DATASET)
      ELSE IF includes(questionLower, HOW_MANY_COLUMNS) \/ includes(questionLower, HOW_MANY_FIELDS)
      THEN Answer(THERE_ARE \o NatChars(Len(fields)) \o COLUMNS_IN_THIS_DATASET
                  \o join(fields) \o <<".">>)
      ELSE IF includes(questionLower, WHAT_COLUMNS) \/ includes(questionLower, WHAT_FIELDS)
      THEN Answer(THE_COLUMNS_ARE \o join(fields) \o <<".">>)
      ELSE IF mentionedColumn # <<>>
      THEN ColumnAnswer(questionLower, rows, mentionedColumn)
      ELSE Answer(NOT_SURE)

(* ----------------------------- suggestions ----------------------------- *)

\* the texts generateCleaningSuggestions writes
FILL_MEAN_MEDIAN ==
  <<"F", "i", "l", "l", " ", "w", "i", "t", "h", " ", "m", "e", "a", "n",
    " ", "o", "r", " ", "m", "e", "d", "i", "a", "n", " ", "v", "a", "l",
    "u", "e">>

FILL_MOST_COMMON ==
  <<"F", "i", "l", "l", " ", "w", "i", "t", "h", " ", "m", "o", "s", "t",
    " ", "c", "o", "m", "m", "o", "n", " ", "v", "a", "l", "u", "e", ":",
    " ", "\"">>

REMOVE_OR_PLACEHOLDER ==
  <<"R", "e", "m", "o", "v", "e", " ", "r", "o", "w", "s", " ", "o", "r",
    " ", "f", "i", "l", "l", " ", "w", "i", "t", "h", " ", "p", "l", "a",
    "c", "e", "h", "o", "l", "d", "e", "r">>

DUPLICATE_ROWS_OPEN ==
  <<" ", "d", "u", "p", "l", "i", "c", "a", "t", "e", " ", "r", "o", "w",
    "s", " ", "(">>

PERCENT_CLOSE ==
  <<"%", ")">>

REMOVE_DUPLICATE_ROWS ==
  <<"R", "e", "m", "o", "v", "e", " ", "d", "u", "p", "l", "i", "c", "a",
    "t", "e", " ", "r", "o", "w", "s">>

OUTLIERS_MAX_VALUE ==
  <<"P", "o", "t", "e", "n", "t", "i", "a", "l", " ", "o", "u", "t", "l",
    "i", "e", "r", "s", " ", "d", "e", "t", "e", "c", "t", "e", "d", " ",
    "(", "m", "a", "x", " ", "v", "a", "l", "u", "e", " ">>

IS_FAR_FROM_MEAN ==
  <<" ", "i", "s", " ", "f", "a", "r", " ", "f", "r", "o", "m", " ", "m",
    "e", "a", "n", " ">>

CONSIDER_CAPPING ==
  <<"C", "o", "n", "s", "i", "d", "e", "r", " ", "c", "a", "p", "p", "i",
    "n", "g", " ", "e", "x", "t", "r", "e", "m", "e", " ", "v", "a", "l",
    "u", "e", "s", " ", "o", "r", " ", "r", "e", "m", "o", "v", "i", "n",
    "g", " ", "o", "u", "t", "l", "i", "e", "r", "s">>

\* the column name of a dataset-wide suggestion
Multiple == <<"M", "u", "l", "t", "i", "p", "l", "e">>

\* a CleaningSuggestion as generateCleaningSuggestions pushes it
Pushed(column, issue, description, recommendation) ==
  [column |-> column, issue |-> issue, description |-> description,
   recommendation |-> recommendation, autoFix |-> TRUE]

\* the recommendation of the missing suggestion of a column
MissingRecommendation(column) ==
  IF column.type = "number" THEN FILL_MEAN_MEDIAN
  ELSE IF column.type = "string" /\ Truthy(column.mode)
  THEN FILL_MOST_COMMON \o JSString(column.mode) \o <<"\"">>
  ELSE REMOVE_OR_PLACEHOLDER

\* the missing suggestion of a column
MissingSuggestion(column) ==
  Pushed(column.name, "missing",
         NatChars(column.nullCount) \o MISSING_VALUES
           \o toFixed2(column.nullPercentage) \o PERCENT_CLOSE,
         MissingRecommendation(column))

\* the first profile.columns.forEach: a missing suggestion for each column
\* with nullPercentage > 0
RECURSIVE PushMissing(_, _, _)
PushMissing(columns, i, suggestions) ==
  IF i > Len(columns) THEN suggestions
  ELSE PushMissing(columns, i + 1,
                   IF /\ Truthy(columns[i].nullPercentage)
                      /\ JSGt(columns[i].nullPercentage, Num(0))
                   THEN Append(suggestions, MissingSuggestion(columns[i]))
                   ELSE suggestions)

\* the duplicate suggestion, pushed when duplicatePercentage > 0
PushDuplicate(profile, suggestions) ==
  IF JSGt(profile.duplicatePercentage, Num(0))
  THEN Append(suggestions,
              Pushed(Multiple, "duplicate",
                     NatChars(profile.duplicateRows) \o DUPLICATE_ROWS_OPEN
                       \o toFixed2(profile.duplicatePercentage) \o PERCENT_CLOSE,
                     REMOVE_DUPLICATE_ROWS))
  ELSE suggestions
IsOutlierColumnNoRange(column) ==
  /\ column.min # Undefined
  /\ column.max # Undefined
  /\ column.mean # Undefined
  /\ JSGt(column.max, JSMul(column.mean, Num(3)))

\* the test of the outlier rule on a column of type number
IsOutlierColumn(column) ==
  /\ column.min # Undefined
  /\ column.max # Undefined
  /\ column.mean # Undefined
  /\ JSGt(JSSub(column.max, column.min), Num(0))
  /\ JSGt(column.max, JSMul(column.mean, Num(3)))

\* the outlier suggestion of a column
OutlierSuggestion(column) ==
  Pushed(column.name, "outlier",
         OUTLIERS_MAX_VALUE \o NumChars(column.max)
           \o IS_FAR_FROM_MEAN \o toFixed2(column.mean) \o <<")">>,
         CONSIDER_CAPPING)

\* the forEach over the columns of type number: an outlier suggestion for
\* each column the outlier rule flags
RECURSIVE PushOutliers(_, _, _)
PushOutliers(columns, i, suggestions) ==
  IF i > Len(columns) THEN suggestions
  ELSE PushOutliers(columns, i + 1,
                    IF columns[i].type = "number" /\ IsOutlierColumn(columns[i])
                    THEN Append(suggestions, OutlierSuggestion(columns[i]))
                    ELSE suggestions)
generateCleaningSuggestionsDuplicateFirst(profile) ==
  PushOutliers(profile.columns, 1,
    PushMissing(profile.columns, 1,
      PushDuplicate(profile, <<>>)))

generateCleaningSuggestions(profile) ==
  PushOutliers(profile.columns, 1,
    PushDuplicate(profile,
      PushMissing(profile.columns, 1, <<>>)))
RECURSIVE PushColumnsAllDimensions(_, _, _)
PushColumnsAllDimensions(columns, i, acc) ==
  IF i > Len(columns) THEN acc
  ELSE IF columns[i].type = "number"
       THEN PushColumnsAllDimensions(columns, i + 1,
              [acc EXCEPT !.measures = Append(@, columns[i].name),
                          !.dimensions = Append(@, columns[i].name)])
       ELSE PushColumnsAllDimensions(columns, i + 1,
              [acc EXCEPT !.dimensions = Append(@, columns[i].name)])

\* the profile.columns.forEach of categorizeColumns; acc = [dimensions, measures]
RECURSIVE PushColumns(_, _, _)
PushColumns(columns, i, acc) ==
  IF i > Len(columns) THEN acc
  ELSE IF columns[i].type = "number"
       THEN PushColumns(columns, i + 1,
                        [acc EXCEPT !.measures = Append(@, columns[i].name)])
       ELSE PushColumns(columns, i + 1,
                        [acc EXCEPT !.dimensions = Append(@, columns[i].name)])

categorizeColumns(profile) ==
  PushColumns(profile.columns, 1, [dimensions |-> <<>>, measures |-> <<>>])

(* ------------------------------- inputs -------------------------------- *)

age == <<"a", "g", "e">>

city == <<"c", "i", "t", "y">>

zip == <<"z", "i", "p">>

score == <<"s", "c", "o", "r", "e">>

NY == <<"N", "Y">>

\* the row objects of the parsed datasets; their keys are a subset of the
\* fields, in field order
RowValues ==
  {<<Prop(age, Num(25)), Prop(city, Str(NY))>>,
   <<Prop(age, Num(1000)), Prop(city, Str(NY))>>,
   <<Prop(age, Null), Prop(city, Str(NY))>>,
   <<Prop(city, Str(NY))>>,
   <<Prop(age, Num(25)), Prop(city, Str(<<>>))>>}

\* the heaps of a parsed dataset: one fresh row object per row
Heaps == UNION {[1..n -> RowValues] : n \in 0..MaxRows}

\* the suggestions a caller may select
SuggestionPool ==
  {Suggestion(Multiple, "duplicate", TRUE),
   Suggestion(age, "missing", TRUE),
   Suggestion(city, "missing", TRUE),
   Suggestion(age, "outlier", TRUE),
   Suggestion(zip, "missing", TRUE),
   Suggestion(zip, "outlier", TRUE),
   Suggestion(age, "missing", FALSE)}

\* the suggestion lists handed to cleanDataset
Selections == UNION {[1..n -> SuggestionPool] : n \in 0..MaxSelected}

\* the questions put to the bot
QRows ==
  <<"H", "o", "w", " ", "m", "a", "n", "y", " ", "r", "o", "w", "s", " ",
    "a", "r", "e", " ", "i", "n", " ", "t", "h", "i", "s", " ", "d", "a",
    "t", "a", "s", "e", "t", "?">>

QMaxAge ==
  <<"W", "h", "a", "t", " ", "i", "s", " ", "t", "h", "e", " ", "m", "a",
    "x", "i", "m", "u", "m", " ", "a", "g", "e", "?">>

QCity ==
  <<"T", "e", "l", "l", " ", "m", "e", " ", "a", "b", "o", "u", "t", " ",
    "c", "i", "t", "y">>

QHello ==
  <<"h", "e", "l", "l", "o">>

QRowsMaxAge ==
  <<"H", "O", "W", " ", "M", "A", "N", "Y", " ", "R", "O", "W", "S", " ",
    "h", "a", "v", "e", " ", "a", " ", "m", "a", "x", "i", "m", "u", "m",
    " ", "a", "g", "e", "?">>

QRecordsColumns ==
  <<"H", "o", "w", " ", "m", "a", "n", "y", " ", "r", "e", "c", "o", "r",
    "d", "s", " ", "a", "n", "d", " ", "h", "o", "w", " ", "m", "a", "n",
    "y", " ", "c", "o", "l", "u", "m", "n", "s", " ", "h", "o", "l", "d",
    " ", "c", "i", "t", "y", "?">>

Questions == {QRows, QMaxAge, QCity, QHello, QRowsMaxAge, QRecordsColumns}

\* the cells of a field of large integers: 9007199254740990 and
\* 9007199254740991 (2^53 - 2 and 2^53 - 1, the largest safe integers), null
\* and a text
PreciseCells ==
  {V("number", 1, 1, <<-2, 1, 53>>), V("number", 1, 1, <<-1, 1, 53>>), Null, Str(NY)}

\* the cells of a numeric field
NumCells == {Num(1), Num(2), Num(3), Num(4), Num(10), Num(1000), Null}

\* the cells of a text field; Undefined stands for a row without the key, and
\* the text constructor names a property every object inherits
TextCells ==
  {Str(<<"a">>), Str(<<"b">>), Str(<<"2">>), Str(<<"1", "0">>), Str(<<>>),
   Null, Undefined, Bool(TRUE), Num(7), Str(CONSTRUCTOR),
   Str(<<"2", "0", "2", "4", "-", "0", "1", "-", "1", "5">>),
   Str(<<"x", "0", "1", "/", "1", "5", "/", "2", "0", "2", "4">>),
   Str(<<"x", "2", "0", "2", "4", "-", "0", "1", "-", "1", "5">>)}

\* the row object of a one-field dataset
OneFieldRow(field, v) == IF v = Undefined THEN <<>> ELSE <<Prop(field, v)>>

\* the row objects of a dataset with the fields age, score and city
WideRows ==
  {<<Prop(age, a), Prop(score, b), Prop(city, c)>> :
     a \in {Num(-4), Num(1), Null}, b \in {Num(-4), Num(1)},
     c \in {Str(NY), Null}}

\* the row objects of a dataset uploaded to the cleaning page
PageRows ==
  {<<Prop(age, a), Prop(city, c)>> :
     a \in {Num(-4), Num(1), Null},
     c \in {Str(NY), Bool(TRUE), Null, Str(<<>>),
            Str(<<"2", "0", "2", "4", "-", "0", "1", "-", "1", "5">>)}}

\* the questions put to the bot about the field age
QMinAge ==
  <<"W", "h", "a", "t", " ", "i", "s", " ", "t", "h", "e", " ", "m", "i",
    "n", "i", "m", "u", "m", " ", "a", "g", "e", "?">>

QMinMaxAge ==
  <<"L", "o", "w", "e", "s", "t", " ", "a", "n", "d", " ", "h", "i", "g",
    "h", "e", "s", "t", " ", "a", "g", "e", "?">>

QMeanUniqueAge ==
  <<"M", "e", "a", "n", " ", "o", "f", " ", "t", "h", "e", " ", "d", "i",
    "s", "t", "i", "n", "c", "t", " ", "a", "g", "e", " ", "v", "a", "l",
    "u", "e", "s", "?">>

QUniqueMissingAge ==
  <<"U", "n", "i", "q", "u", "e", " ", "o", "r", " ", "m", "i", "s", "s",
    "i", "n", "g", " ", "a", "g", "e", "?">>

QEmptyAge ==
  <<"I", "s", " ", "a", "n", "y", " ", "a", "g", "e", " ", "e", "m", "p",
    "t", "y", "?">>

QAboutAge ==
  <<"T", "e", "l", "l", " ", "m", "e", " ", "a", "b", "o", "u", "t", " ",
    "a", "g", "e">>

BotQuestions ==
  {QMaxAge, QMinAge, QMinMaxAge, QMeanUniqueAge, QUniqueMissingAge, QEmptyAge,
   QAboutAge}

\* the text of a field that holds no number
NA == <<"n", "/", "a">>

\* the row objects of a file with the header city,age that the bot is asked
\* about: the field age holds a number, nothing (null) or a text, and a line
\* that ends behind the city gives a row without the key age
BotRows ==
  {<<Prop(city, Str(NY)), Prop(age, a)>> : a \in {Num(-4), Num(1), Null, Str(NA)}}
    \cup {<<Prop(city, Str(NY))>>}

\* the row objects of a dataset uploaded to the bot page, fields city and age
ChatRows ==
  {<<Prop(city, Str(NY)), Prop(age, Num(25))>>,
   <<Prop(city, Str(NY)), Prop(age, Null)>>}

\* the texts typed into the input field of the bot page
TypedQuestions == {<<" ", " ">>, QAboutAge}

(* ---------------------------- state machine ---------------------------- *)

VARIABLES
  heap,         \* the row objects of the parsed file and of its cleaning, by address
  dataset,      \* the state dataset of the page, None for null
  profile,      \* the state profile of the cleaning page, None for null
  suggestions,  \* the state suggestions of the cleaning page
  selectedSuggestions, \* the state selectedSuggestions: indices from 0
  cleaned,      \* the state cleanedDataset of the cleaning page, None for null
  isLoading,    \* the state isLoading of the page
  isProcessing, \* the state isProcessing of the cleaning page
  messages,     \* the state messages of the bot page
  input,        \* the state input of the bot page
  parsing,      \* the number of parseCSV promises that have not settled
  timers,       \* the callbacks handleSendMessage gave to setTimeout, oldest first
  now,          \* the last reading of Date.now()
  selected,     \* the suggestions cleanDataset was last called with
  csv,          \* [text: what convertToCSV returned in this step], None without a call
  question,     \* the question generateAnswer was called with in this step
  asked,        \* the dataset generateAnswer was called with in this step
  answer,       \* what that call did, None without a call
  groups,       \* what categorizeColumns returned, None before the call
  pc            \* the page that is mounted; for the functions of dataUtils
                \* called one after the other, the call made last

vars ==
  <<heap, dataset, profile, suggestions, selectedSuggestions, cleaned,
    isLoading, isProcessing, messages, input, parsing, timers, now, selected,
    csv, question, asked, answer, groups, pc>>

\* null, for the states that hold an object or null
None == [none |-> TRUE]

FileName ==
  <<"d", "a", "t", "a", ".", "c", "s", "v">>

\* a DatasetType
Dataset(fields, data) == [fields |-> fields, data |-> data, filename |-> FileName]

\* what the cleaning page never touches, what the bot page never touches,
\* and what a call of a function of dataUtils on its own never touches
botState == <<messages, input, timers, now, question, asked, answer>>

cleaningState ==
  <<profile, suggestions, selectedSuggestions, cleaned, isProcessing, selected, csv>>

pageState == <<isLoading, isProcessing, parsing>>

\* the values the states and call records have before anything is called
Fresh ==
  /\ profile = None
  /\ suggestions = <<>>
  /\ selectedSuggestions = <<>>
  /\ cleaned = None
  /\ isLoading = FALSE
  /\ isProcessing = FALSE
  /\ input = <<>>
  /\ parsing = 0
  /\ timers = <<>>
  /\ selected = <<>>
  /\ csv = None
  /\ question = <<>>
  /\ asked = None
  /\ answer = None
  /\ groups = None

(* ----------------- the functions of dataUtils, called in turn ---------- *)

\* a parsed dataset of up to MaxRows rows with the fields age and city, no
\* function called on it yet
InitParsed ==
  /\ heap \in Heaps
  /\ dataset = Dataset(<<age, city>>, [i \in 1..Len(heap) |-> i])
  /\ messages = <<>>
  /\ now = 0
  /\ Fresh
  /\ pc = "parsed"

\* profile = generateDataProfile(dataset)
Profile ==
  /\ pc = "parsed"
  /\ profile' = generateDataProfile(dataset.fields, Deref(heap, dataset.data))
  /\ pc' = "profiled"
  /\ UNCHANGED <<heap, dataset, suggestions, selectedSuggestions, cleaned,
                 selected, csv, groups, pageState, botState>>

\* the heap a call of cleanDataset leaves and the dataset it returns:
\* {...dataset, data: cleanedData}
Returned(st) ==
  /\ heap' = st.heap
  /\ cleaned' = [dataset EXCEPT !.data = st.data]

\* cleaned = cleanDataset(dataset, profile, sel), for a list sel of
\* suggestions of the caller's choice
Clean ==
  /\ pc = "profiled"
  /\ \E sel \in Selections :
       /\ selected' = sel
       /\ Returned(cleanDataset(heap, dataset, profile, sel))
  /\ pc' = "cleaned"
  /\ UNCHANGED <<dataset, profile, suggestions, selectedSuggestions, csv,
                 groups, pageState, botState>>

\* csv = convertToCSV(cleaned)
Export ==
  /\ pc = "cleaned"
  /\ csv' = [text |-> convertToCSV(Deref(heap, cleaned.data))]
  /\ pc' = "exported"
  /\ UNCHANGED <<heap, dataset, profile, suggestions, selectedSuggestions,
                 cleaned, selected, groups, pageState, botState>>

NextExport == Profile \/ Clean \/ Export

\* generateDataProfile, cleanDataset and convertToCSV called in turn
SpecExport == InitParsed /\ [][NextExport]_vars

NextClean == Profile \/ Clean

\* generateDataProfile and cleanDataset called in turn
SpecClean == InitParsed /\ [][NextClean]_vars

\* a parsed dataset handed to the profiler: up to MaxNumRows rows with a
\* numeric field, up to MaxTextRows rows with a text field, or up to
\* MaxWideRows rows with three fields
InitProfile ==
  /\ \/ \E n \in 0..MaxNumRows : \E cells \in [1..n -> NumCells] :
          /\ heap = [i \in 1..n |-> OneFieldRow(age, cells[i])]
          /\ dataset = Dataset(<<age>>, [i \in 1..n |-> i])
     \/ \E n \in 0..MaxTextRows : \E cells \in [1..n -> TextCells] :
          /\ heap = [i \in 1..n |-> OneFieldRow(city, cells[i])]
          /\ dataset = Dataset(<<city>>, [i \in 1..n |-> i])
     \/ \E n \in 0..MaxWideRows : \E rows \in [1..n -> WideRows] :
          /\ heap = rows
          /\ dataset = Dataset(<<age, score, city>>, [i \in 1..n |-> i])
  /\ messages = <<>>
  /\ now = 0
  /\ Fresh
  /\ pc = "parsed"

\* suggestions = generateCleaningSuggestions(profile)
Suggest ==
  /\ pc = "profiled"
  /\ suggestions' = generateCleaningSuggestions(profile)
  /\ pc' = "suggested"
  /\ UNCHANGED <<heap, dataset, profile, selectedSuggestions, cleaned,
                 selected, csv, groups, pageState, botState>>

\* groups = categorizeColumns(profile)
Categorize ==
  /\ pc = "profiled"
  /\ groups' = categorizeColumns(profile)
  /\ pc' = "categorized"
  /\ UNCHANGED <<heap, dataset, profile, suggestions, selectedSuggestions,
                 cleaned, selected, csv, pageState, botState>>

NextProfile == Profile \/ Suggest \/ Categorize

\* generateDataProfile called, then generateCleaningSuggestions or
\* categorizeColumns on its result
SpecProfile == InitProfile /\ [][NextProfile]_vars

\* a parsed dataset of one field of large integers
InitPrecise ==
  /\ \E n \in 0..MaxPreciseRows : \E cells \in [1..n -> PreciseCells] :
       /\ heap = [i \in 1..n |-> OneFieldRow(age, cells[i])]
       /\ dataset = Dataset(<<age>>, [i \in 1..n |-> i])
  /\ messages = <<>>
  /\ now = 0
  /\ Fresh
  /\ pc = "parsed"

SpecPrecise == InitPrecise /\ [][NextProfile]_vars

\* a parsed dataset handed to generateAnswer: up to MaxRows rows with the
\* fields age and city, or up to MaxBotRows rows with the fields city and age
InitAnswer ==
  /\ \/ /\ heap \in Heaps
        /\ dataset = Dataset(<<age, city>>, [i \in 1..Len(heap) |-> i])
     \/ \E n \in 0..MaxBotRows :
          /\ heap \in [1..n -> BotRows]
          /\ dataset = Dataset(<<city, age>>, [i \in 1..n |-> i])
  /\ messages = <<>>
  /\ now = 0
  /\ Fresh
  /\ pc = "parsed"

\* answer = generateAnswer(q, dataset)
Ask ==
  /\ pc = "parsed"
  /\ \E q \in Questions \cup BotQuestions :
       /\ question' = q
       /\ asked' = [fields |-> dataset.fields, rows |-> Deref(heap, dataset.data)]
       /\ answer' = generateAnswer(q, asked'.fields, asked'.rows)
  /\ pc' = "answered"
  /\ UNCHANGED <<heap, dataset, messages, input, timers, now, groups,
                 pageState, cleaningState>>

\* generateAnswer called on a parsed dataset
SpecAnswer == InitAnswer /\ [][Ask]_vars

\* a parsed dataset of up to MaxPageRows rows with the fields age and city,
\* text, boolean and date cells among them
InitSuggested ==
  /\ \E n \in 0..MaxPageRows : \E rows \in [1..n -> PageRows] :
       /\ heap = rows
       /\ dataset = Dataset(<<age, city>>, [i \in 1..n |-> i])
  /\ messages = <<>>
  /\ now = 0
  /\ Fresh
  /\ pc = "parsed"

\* cleaned = cleanDataset(dataset, profile, sel), for sel some of the
\* generated suggestions, in the order of their generation
CleanSuggested ==
  /\ pc = "suggested"
  /\ \E keep \in SUBSET (1..Len(suggestions)) :
       /\ selected' = FilterIdx(suggestions, keep, 1)
       /\ Returned(cleanDataset(heap, dataset, profile, selected'))
  /\ pc' = "applied"
  /\ UNCHANGED <<dataset, profile, suggestions, selectedSuggestions, csv,
                 groups, pageState, botState>>

NextSuggested == Profile \/ Suggest \/ CleanSuggested

\* generateDataProfile, generateCleaningSuggestions and cleanDataset called
\* in turn
SpecSuggested == InitSuggested /\ [][NextSuggested]_vars

(* -------------------------- the DataCleaning page ---------------------- *)

\* the page as it is mounted: the initial values of its useState calls; no
\* file is being parsed
Init ==
  /\ heap = <<>>
  /\ dataset = None
  /\ messages = <<>>
  /\ now = 0
  /\ Fresh
  /\ pc = "DataCleaning"

\* handleFileUpload(file) up to its await: FileUpload, which calls it, is
\* rendered while dataset is null
handleFileUpload ==
  /\ dataset = None
  /\ parsing < MaxParsing
  /\ isLoading' = TRUE
  /\ parsing' = parsing + 1
  /\ csv' = None
  /\ UNCHANGED <<heap, dataset, profile, suggestions, selectedSuggestions,
                 cleaned, isProcessing, selected, groups, pc, botState>>

\* the rest of handleFileUpload when parseCSV resolves, with a file of up to
\* MaxPageRows rows: dataset, profile and suggestions are set, every
\* suggestion is ticked, cleanedDataset is reset, and finally isLoading
Parsed ==
  /\ parsing > 0
  /\ \E n \in 0..MaxPageRows : \E rows \in [1..n -> PageRows] :
       /\ heap' = rows
       /\ dataset' = Dataset(<<age, city>>, [i \in 1..n |-> i])
  /\ profile' = generateDataProfile(dataset'.fields, Deref(heap', dataset'.data))
  /\ suggestions' = generateCleaningSuggestions(profile')
  /\ selectedSuggestions' = [i \in 1..Len(suggestions') |-> i - 1]
  /\ cleaned' = None
  /\ selected' = <<>>
  /\ isLoading' = FALSE
  /\ parsing' = parsing - 1
  /\ csv' = None
  /\ UNCHANGED <<isProcessing, groups, pc, botState>>

\* the rest of handleFileUpload when parseCSV rejects: the catch shows a
\* toast, the finally resets isLoading
ParseFailed ==
  /\ parsing > 0
  /\ isLoading' = FALSE
  /\ parsing' = parsing - 1
  /\ csv' = None
  /\ UNCHANGED <<heap, dataset, profile, suggestions, selectedSuggestions,
                 cleaned, isProcessing, selected, groups, pc, botState>>

\* the suggestion cards, the Apply button and the results card are rendered
\* with a dataset that is not being analyzed
CardsRendered == dataset # None /\ ~isLoading

\* the state update of toggleSuggestion(index)
Toggled(prev, index) ==
  IF \E i \in 1..Len(prev) : prev[i] = index
  THEN FilterIdx(prev, {i \in 1..Len(prev) : prev[i] # index}, 1)
  ELSE Append(prev, index)

\* toggleSuggestion(index), from the checkbox of a rendered suggestion
toggleSuggestion ==
  /\ CardsRendered
  /\ \E index \in 0..(Len(suggestions) - 1) :
       selectedSuggestions' = Toggled(selectedSuggestions, index)
  /\ csv' = None
  /\ UNCHANGED <<heap, dataset, profile, suggestions, cleaned, isLoading,
                 isProcessing, parsing, selected, groups, pc, botState>>

\* suggestions.filter((_, index) => selectedSuggestions.includes(index))
selectedSuggestionsArr(all, ticked) ==
  FilterIdx(all, {i \in 1..Len(all) : \E j \in 1..Len(ticked) : ticked[j] = i - 1}, 1)

\* the row objects of the parsed file: those of an earlier cleaning are no
\* longer referred to once cleanedDataset is replaced
ParsedRows == SubSeq(heap, 1, Len(dataset.data))

\* applyCleaningActions(), from the Apply button: rendered with a suggestion,
\* enabled with a ticked one and isProcessing false.  isProcessing is set and
\* reset within the call.
applyCleaningActions ==
  /\ CardsRendered
  /\ Len(suggestions) > 0
  /\ Len(selectedSuggestions) > 0
  /\ ~isProcessing
  /\ profile # None
  /\ selected' = selectedSuggestionsArr(suggestions, selectedSuggestions)
  /\ Returned(cleanDataset(ParsedRows, dataset, profile, selected'))
  /\ isProcessing' = FALSE
  /\ csv' = None
  /\ UNCHANGED <<dataset, profile, suggestions, selectedSuggestions,
                 isLoading, parsing, groups, pc, botState>>

\* downloadCleanedData(), from the button of the results card: the text of
\* the file cleaned_<filename> handed to the browser
downloadCleanedData ==
  /\ CardsRendered
  /\ cleaned # None
  /\ csv' = [text |-> convertToCSV(Deref(heap, cleaned.data))]
  /\ UNCHANGED <<heap, dataset, profile, suggestions, selectedSuggestions,
                 cleaned, isLoading, isProcessing, parsing, selected, groups,
                 pc, botState>>

\* the onClick of Upload New File, rendered with a dataset
UploadNewFile ==
  /\ dataset # None
  /\ heap' = <<>>
  /\ dataset' = None
  /\ profile' = None
  /\ suggestions' = <<>>
  /\ selectedSuggestions' = <<>>
  /\ cleaned' = None
  /\ selected' = <<>>
  /\ csv' = None
  /\ UNCHANGED <<isLoading, isProcessing, parsing, groups, pc, botState>>

Next ==
  \/ handleFileUpload
  \/ Parsed
  \/ ParseFailed
  \/ toggleSuggestion
  \/ applyCleaningActions
  \/ downloadCleanedData
  \/ UploadNewFile

Spec == Init /\ [][Next]_vars

(* ----------------------------- the DataBot page ------------------------ *)

HELLO ==
  <<"H", "e", "l", "l", "o", "!", " ", "I", "'", "m", " ", "D", "a", "t",
    "a", " ", "B", "o", "t", ".", " ", "U", "p", "l", "o", "a", "d", " ",
    "a", " ", "C", "S", "V", " ", "f", "i", "l", "e", " ", "a", "n", "d",
    " ", "a", "s", "k", " ", "m", "e", " ", "q", "u", "e", "s", "t", "i",
    "o", "n", "s", " ", "a", "b", "o", "u", "t", " ", "y", "o", "u", "r",
    " ", "d", "a", "t", "a", ".">>

IVE_LOADED ==
  <<"I", "'", "v", "e", " ", "l", "o", "a", "d", "e", "d", " ", "y", "o",
    "u", "r", " ", "d", "a", "t", "a", "s", "e", "t", " ", "\"">>

WITH_ ==
  <<"\"", " ", "w", "i", "t", "h", " ">>

ROWS_AND ==
  <<" ", "r", "o", "w", "s", " ", "a", "n", "d", " ">>

COLUMNS_WHAT ==
  <<" ", "c", "o", "l", "u", "m", "n", "s", ".", " ", "W", "h", "a", "t",
    " ", "w", "o", "u", "l", "d", " ", "y", "o", "u", " ", "l", "i", "k",
    "e", " ", "t", "o", " ", "k", "n", "o", "w", " ", "a", "b", "o", "u",
    "t", " ", "i", "t", "?">>

\* a Message; one without loading counts as not loading
Message(id, content, sender, loading) ==
  [id |-> id, content |-> content, sender |-> sender, loading |-> loading]

\* the message the page starts with and Upload New File resets to; the ids
\* are the numbers whose decimal text the code compares
Greeting == Message(1, HELLO, "bot", FALSE)

\* the page as it is mounted; the clock stands above the id of the greeting
InitBot ==
  /\ heap = <<>>
  /\ dataset = None
  /\ messages = <<Greeting>>
  /\ now = 2
  /\ Fresh
  /\ pc = "DataBot"

\* no call of generateAnswer in this step
NoCall ==
  /\ question' = <<>>
  /\ asked' = None
  /\ answer' = None

\* handleFileUpload(file) of the bot page up to its await
botFileUpload ==
  /\ dataset = None
  /\ parsing < MaxParsing
  /\ isLoading' = TRUE
  /\ parsing' = parsing + 1
  /\ NoCall
  /\ UNCHANGED <<heap, dataset, messages, input, timers, now, groups, pc,
                 cleaningState>>

\* a reading of Date.now(), of which only matters which ids it equals: the
\* last reading or up to 2 ms more
Readings == {t \in now..(now + 2) : t <= MaxClock}

\* the text of the welcome message for a parsed file
Welcome(file) ==
  IVE_LOADED \o file.filename \o WITH_ \o NatChars(Len(file.data)) \o ROWS_AND
    \o NatChars(Len(file.fields)) \o COLUMNS_WHAT

\* the rest of that handleFileUpload when parseCSV resolves, with a file of
\* up to MaxChatRows rows of the fields city and age: dataset is set and the
\* welcome message added
botParsed ==
  /\ parsing > 0
  /\ \E n \in 0..MaxChatRows : \E rows \in [1..n -> ChatRows] :
       /\ heap' = rows
       /\ dataset' = Dataset(<<city, age>>, [i \in 1..n |-> i])
  /\ \E t \in Readings :
       /\ now' = t
       /\ messages' = Append(messages, Message(t, Welcome(dataset'), "bot", FALSE))
  /\ isLoading' = FALSE
  /\ parsing' = parsing - 1
  /\ NoCall
  /\ UNCHANGED <<input, timers, groups, pc, cleaningState>>

\* the rest of that handleFileUpload when parseCSV rejects
botParseFailed ==
  /\ parsing > 0
  /\ isLoading' = FALSE
  /\ parsing' = parsing - 1
  /\ NoCall
  /\ UNCHANGED <<heap, dataset, messages, input, timers, now, groups, pc,
                 cleaningState>>

\* setInput(e.target.value), the onChange of the input field, rendered with
\* a dataset
setInput ==
  /\ dataset # None
  /\ input' \in TypedQuestions
  /\ NoCall
  /\ UNCHANGED <<heap, dataset, isLoading, messages, parsing, timers, now,
                 groups, pc, cleaningState>>

COLUMN ==
  <<"[", "c", "o", "l", "u", "m", "n", "]">>

NUMBER ==
  <<"n", "u", "m", "b", "e", "r">>

suggestedQuestions ==
  <<QRows,
   
  <<"W", "h", "a", "t", " ", "c", "o", "l", "u", "m", "n", "s", " ", "a",
    "r", "e", " ", "a", "v", "a", "i", "l", "a", "b", "l", "e", "?">>,
   
  <<"W", "h", "a", "t", "'", "s", " ", "t", "h", "e", " ", "a", "v", "e",
    "r", "a", "g", "e", " ", "o", "f", " ", "[", "c", "o", "l", "u", "m",
    "n", "]", "?">>,
   
  <<"H", "o", "w", " ", "m", "a", "n", "y", " ", "m", "i", "s", "s", "i",
    "n", "g", " ", "v", "a", "l", "u", "e", "s", " ", "a", "r", "e", " ",
    "i", "n", " ", "[", "c", "o", "l", "u", "m", "n", "]", "?">>,
   
  <<"W", "h", "a", "t", "'", "s", " ", "t", "h", "e", " ", "m", "a", "x",
    "i", "m", "u", "m", " ", "v", "a", "l", "u", "e", " ", "i", "n", " ",
    "[", "c", "o", "l", "u", "m", "n", "]", "?">>,
   
  <<"H", "o", "w", " ", "m", "a", "n", "y", " ", "u", "n", "i", "q", "u",
    "e", " ", "v", "a", "l", "u", "e", "s", " ", "a", "r", "e", " ", "i",
    "n", " ", "[", "c", "o", "l", "u", "m", "n", "]", "?">>>>

\* the text a replacement string stands for: $$ is a dollar sign, $& the
\* matched text and $' the text behind the match; a pattern that is a string
\* has no groups, so a dollar sign before anything else stands for itself
\* (before a grave accent it stands for the text ahead of the match, and no
\* string of this module holds a grave accent)
RECURSIVE GetSubstitution(_, _, _)
GetSubstitution(replacement, matched, behind) ==
  IF replacement = <<>> THEN <<>>
  ELSE IF Len(replacement) >= 2 /\ replacement[1] = "$" /\ replacement[2] \in {"$", "&", "'"}
  THEN (IF replacement[2] = "$" THEN <<"$">>
        ELSE IF replacement[2] = "&" THEN matched
        ELSE behind)
       \o GetSubstitution(SubSeq(replacement, 3, Len(replacement)), matched, behind)
  ELSE <<replacement[1]>> \o GetSubstitution(Tail(replacement), matched, behind)

\* part stands in s from place at on
OccursAt(s, part, at) ==
  /\ at + Len(part) - 1 <= Len(s)
  /\ \A j \in 1..Len(part) : s[at + j - 1] = part[j]

\* s with the part of the length of pattern at place at replaced
ReplacedAt(s, pattern, replacement, at) ==
  SubSeq(s, 1, at - 1)
    \o GetSubstitution(replacement, pattern, SubSeq(s, at + Len(pattern), Len(s)))
    \o SubSeq(s, at + Len(pattern), Len(s))

\* s.replace(pattern, replacement) for a pattern that is a string: its first
\* occurrence is replaced
replace(s, pattern, replacement) ==
  IF ~includes(s, pattern) THEN s
  ELSE ReplacedAt(s, pattern, replacement,
                  CHOOSE at \in 1..(Len(s) + 1) :
                    /\ OccursAt(s, pattern, at)
                    /\ \A before \in 1..(at - 1) : ~OccursAt(s, pattern, before))

\* dataset.fields.find(field => typeof dataset.data[0][field] === 'number'),
\* undefined written as the empty text, which the condition on it treats alike
numericColumn(fields, row) ==
  IF \E i \in 1..Len(fields) : typeof(Get(row, fields[i])) = NUMBER
  THEN fields[CHOOSE i \in 1..Len(fields) :
                /\ typeof(Get(row, fields[i])) = NUMBER
                /\ \A j \in 1..(i - 1) : typeof(Get(row, fields[j])) # NUMBER]
  ELSE <<>>

\* the column handleSuggestedQuestion puts in the place of [column]
preferredColumn(q, fields, rows) ==
  IF /\ \/ includes(q, MAXIMUM)
        \/ includes(q, MINIMUM)
        \/ includes(q, AVERAGE)
     /\ Len(rows) > 0
     /\ numericColumn(fields, rows[1]) # <<>>
  THEN numericColumn(fields, rows[1])
  ELSE fields[1]

\* processedQuestion of handleSuggestedQuestion(q)
processedQuestion(q, fields, rows) ==
  IF includes(q, COLUMN) /\ Len(fields) > 0
  THEN replace(q, COLUMN, preferredColumn(q, fields, rows))
  ELSE q

\* handleSuggestedQuestion(question), from one of the buttons rendered with
\* a dataset
handleSuggestedQuestion ==
  /\ dataset # None
  /\ \E i \in 1..Len(suggestedQuestions) :
       input' = processedQuestion(suggestedQuestions[i], dataset.fields,
                                  Deref(heap, dataset.data))
  /\ NoCall
  /\ UNCHANGED <<heap, dataset, isLoading, messages, parsing, timers, now,
                 groups, pc, cleaningState>>

\* handleSendMessage(), from the Send button or the Enter key: the question
\* and a loading bot message are added, whose ids are two readings of
\* Date.now(), the second plus 1; the answer is left to a timer whose callback
\* holds input, dataset and the bot message's id; the rows of a dataset of
\* this page never change, so the callback is written with the rows
handleSendMessage ==
  /\ dataset # None
  /\ Trim(input) # <<>>
  /\ Len(messages) + 2 <= MaxMessages
  /\ Len(timers) < MaxTimers
  /\ \E t \in Readings : \E u \in {t, t + 1} :
       /\ u <= MaxClock
       /\ now' = u
       /\ messages' = messages \o <<Message(t, input, "user", FALSE),
                                    Message(u + 1, <<>>, "bot", TRUE)>>
       /\ timers' = Append(timers, [id |-> u + 1, input |-> input,
                                    fields |-> dataset.fields,
                                    rows |-> Deref(heap, dataset.data)])
  /\ input' = <<>>
  /\ NoCall
  /\ UNCHANGED <<heap, dataset, isLoading, parsing, groups, pc, cleaningState>>

\* the messages with the answer written to each message of the id
WithAnswer(all, id, text) ==
  [i \in 1..Len(all) |->
     IF all[i].id = id THEN [all[i] EXCEPT !.content = text, !.loading = FALSE]
     ELSE all[i]]

\* the callback of the oldest timer, 1000 ms after its handleSendMessage:
\* generateAnswer is called and its answer written to the messages of the
\* bot message's id; when the call raises, the callback ends there.  Every
\* later reading of Date.now() is above that id.
TimerCallback ==
  /\ timers # <<>>
  /\ question' = Head(timers).input
  /\ asked' = [fields |-> Head(timers).fields, rows |-> Head(timers).rows]
  /\ answer' = generateAnswer(question', asked'.fields, asked'.rows)
  /\ messages' = IF answer'.raised THEN messages
                 ELSE WithAnswer(messages, Head(timers).id, answer'.text)
  /\ timers' = Tail(timers)
  /\ now' = IF now > Head(timers).id THEN now ELSE Head(timers).id + 1
  /\ UNCHANGED <<heap, dataset, isLoading, input, parsing, groups, pc,
                 cleaningState>>

\* the onClick of Upload New File of the bot page, rendered with a dataset
botUploadNewFile ==
  /\ dataset # None
  /\ heap' = <<>>
  /\ dataset' = None
  /\ messages' = <<Greeting>>
  /\ NoCall
  /\ UNCHANGED <<isLoading, input, parsing, timers, now, groups, pc,
                 cleaningState>>

NextBot ==
  \/ botFileUpload
  \/ botParsed
  \/ botParseFailed
  \/ setInput
  \/ handleSuggestedQuestion
  \/ handleSendMessage
  \/ TimerCallback
  \/ botUploadNewFile

SpecBot == InitBot /\ [][NextBot]_vars

(* ------------------------------ properties ----------------------------- *)

Profiled == pc \in {"profiled", "cleaned", "exported"}

Cleaned == pc = "cleaned" \/ pc = "exported"

Dup == Suggestion(Multiple, "duplicate", TRUE)

\* the heap and data array cleanDataset started from: cleaning only ever adds
\* row objects after the parsed ones
Start == [heap |-> SubSeq(heap, 1, Len(dataset.data)), data |-> dataset.data]

\* the rows of the data array after the first n selected suggestions
RowsAfter(n) == LET st == CleanSteps(Start, profile, selected, n)
                IN  Deref(st.heap, st.data)

\* the rows of the cleaned dataset
CleanedRows == Deref(heap, cleaned.data)

RECURSIVE SumNullCount(_)
SumNullCount(columns) ==
  IF columns = <<>> THEN 0 ELSE Head(columns).nullCount + SumNullCount(Tail(columns))

\* C1: the nullValues of a Profile is the sum of the nullCount of its columns
C1_NullValuesIsSum ==
  Profiled => profile.nullValues = SumNullCount(profile.columns)

\* C1 witness: a profile in which both columns have missing cells
C1_Witness ==
  /\ Profiled
  /\ profile.columns[1].nullCount > 0
  /\ profile.columns[2].nullCount > 0

\* C2: for every Dataset, one with zero rows included, duplicateRows is
\* rowCount minus the number of distinct canonical row keys and
\* duplicatePercentage is a defined number between 0 and 100
C2_DuplicateStats ==
  Profiled =>
    LET rows == Deref(heap, dataset.data)
        keys == {JSONstringify(rows[i]) : i \in 1..Len(rows)}
    IN  /\ profile.duplicateRows = profile.rowCount - Cardinality(keys)
        /\ ~IsNaN(profile.duplicatePercentage)
        /\ JSLe(Num(0), profile.duplicatePercentage)
        /\ JSLe(profile.duplicatePercentage, Num(100))

\* C3: with zero rows every column's nullPercentage is 0, not NaN; otherwise
\* it is nullCount / rowCount x 100
C3_NullPercentage ==
  Profiled =>
    \A c \in 1..Len(profile.columns) :
      IF profile.rowCount = 0
      THEN profile.columns[c].nullPercentage = Num(0)
      ELSE profile.columns[c].nullPercentage
             = JSMul(JSDiv(Num(profile.columns[c].nullCount),
                           Num(profile.rowCount)), Num(100))

\* C4: generateAnswer returns an answer text and raises nothing, for every
\* question and every Dataset
C4_AnswerNeverRaises ==
  answer # None => ~answer.raised

\* C5: cleanDataset leaves the input Dataset's row sequence, every input row
\* object and the Profile as they were; a changed row is a new object
C5_CleanKeepsInputs ==
  [][pc = "profiled" /\ pc' = "cleaned" =>
       /\ dataset' = dataset
       /\ profile' = profile
       /\ \A a \in 1..Len(heap) : heap'[a] = heap[a]
       /\ \A i \in 1..Len(cleaned'.data) :
            \/ cleaned'.data[i] \in SetOfSeq(dataset.data)
            \/ cleaned'.data[i] > Len(heap)]_vars

\* C5 witness: a cleaning that filled or capped a cell, so made new rows
C5_Witness ==
  /\ pc = "cleaned"
  /\ Len(heap) > Len(dataset.data)
  /\ \E i \in 1..Len(cleaned.data) : cleaned.data[i] > Len(dataset.data)

\* C6: removing duplicates twice, or once more on its own output, gives the
\* rows that removing them once gives, in the same order
C6_DuplicateIdempotent ==
  (Cleaned /\ Len(selected) >= 1 /\ selected[Len(selected)] = Dup) =>
    /\ Deref(heap, RemoveDuplicates([heap |-> heap, data |-> cleaned.data]).data) = CleanedRows
    /\ (Len(selected) >= 2 /\ selected[Len(selected) - 1] = Dup)
         => CleanedRows = RowsAfter(Len(selected) - 1)

\* C6 witness: the duplicate suggestion listed twice on a dataset that has
\* duplicate rows
C6_Witness ==
  /\ pc = "cleaned"
  /\ selected = <<Dup, Dup>>
  /\ Len(cleaned.data) < Len(dataset.data)

\* C7: the export of a cleaned Dataset is a header line equal to fields, in
\* order, followed by one line per row in row order, whatever the number of
\* rows and the keys of the first row
C7_ExportHeaderAndRows ==
  pc = "exported" =>
    LET header == Joined(dataset.fields, <<",">>)
        line(i) == Joined([j \in 1..Len(dataset.fields) |->
                             CSVCell(Get(heap[cleaned.data[i]], dataset.fields[j]))],
                          <<",">>)
    IN  csv.text = Joined(<<header>> \o [i \in 1..Len(cleaned.data) |-> line(i)],
                     <<"\r", "\n">>)

\* the column a suggestion names, as the Profile has it
Named(suggestion) == profile.columns[FindColumn(profile, suggestion.column)]

\* the last selected suggestion and the rows it was applied to
LastSel == selected[Len(selected)]

RowsBefore == RowsAfter(Len(selected) - 1)

\* C8: a missing suggestion with autoFix for a column of the Profile fills
\* every null / undefined / '' cell of that column with the median (number
\* column with a median), else the mode when defined, else 0 (number column)
\* or Unknown; every other cell is left as it was
C8_MissingFill ==
  (/\ Cleaned
   /\ Len(selected) >= 1
   /\ LastSel.issue = "missing"
   /\ LastSel.autoFix
   /\ FindColumn(profile, LastSel.column) # 0) =>
    LET c == LastSel.column
        col == Named(LastSel)
        before == RowsBefore
        after == CleanedRows
        fill == IF col.type = "number" /\ col.median # Undefined THEN col.median
                ELSE IF col.mode # Undefined THEN col.mode
                ELSE IF col.type = "number" THEN Num(0)
                ELSE Str(<<"U", "n", "k", "n", "o", "w", "n">>)
    IN  /\ Len(after) = Len(before)
        /\ \A i \in 1..Len(before) :
             \A f \in SetOfSeq(dataset.fields) :
               Get(after[i], f) =
                 IF f = c /\ IsMissing(Get(before[i], f))
                 THEN fill
                 ELSE Get(before[i], f)

\* C8 witness: age cells 25, null, 25 with median 25 become 25, 25, 25
C8_Witness ==
  /\ pc = "cleaned"
  /\ selected = <<Suggestion(age, "missing", TRUE)>>
  /\ [i \in 1..Len(dataset.data) |-> Get(heap[dataset.data[i]], age)]
       = <<Num(25), Null, Num(25)>>
  /\ [i \in 1..Len(cleaned.data) |-> Get(heap[cleaned.data[i]], age)]
       = <<Num(25), Num(25), Num(25)>>

\* C9: an outlier suggestion with autoFix for a number column with a median
\* sets every numeric cell above median x 3 to median x 3 and leaves every
\* other cell as it was; for a column that is no number column or has no
\* median nothing changes
C9_OutlierCap ==
  (/\ Cleaned
   /\ Len(selected) >= 1
   /\ LastSel.issue = "outlier"
   /\ LastSel.autoFix
   /\ FindColumn(profile, LastSel.column) # 0) =>
    LET c == LastSel.column
        col == Named(LastSel)
        before == RowsBefore
        after == CleanedRows
        cap == JSMul(col.median, Num(3))
    IN  IF col.type = "number" /\ col.median # Undefined
        THEN /\ Len(after) = Len(before)
             /\ \A i \in 1..Len(before) :
                  \A f \in SetOfSeq(dataset.fields) :
                    Get(after[i], f) =
                      IF /\ f = c
                         /\ Get(before[i], f).t = "number"
                         /\ JSGt(Get(before[i], f), cap)
                      THEN cap
                      ELSE Get(before[i], f)
        ELSE after = before

\* C9 witness: age cells 25, 25, 1000 with median 25 become 25, 25, 75
C9_Witness ==
  /\ pc = "cleaned"
  /\ selected = <<Suggestion(age, "outlier", TRUE)>>
  /\ [i \in 1..Len(dataset.data) |-> Get(heap[dataset.data[i]], age)]
       = <<Num(25), Num(25), Num(1000)>>
  /\ [i \in 1..Len(cleaned.data) |-> Get(heap[cleaned.data[i]], age)]
       = <<Num(25), Num(25), Num(75)>>

\* a suggestion without autoFix, or a missing / outlier suggestion naming a
\* column the Profile does not have
IsSkipped(suggestion) ==
  \/ ~suggestion.autoFix
  \/ /\ suggestion.issue \in {"missing", "outlier"}
     /\ FindColumn(profile, suggestion.column) = 0

\* seq without its n-th element
Without(seq, n) == SubSeq(seq, 1, n - 1) \o SubSeq(seq, n + 1, Len(seq))

\* C10: a selected suggestion without autoFix, or a missing / outlier one
\* whose column the Profile lacks, changes nothing, and the suggestions after
\* it are applied as if it were not in the list
C10_SkippedSuggestion ==
  Cleaned =>
    \A n \in 1..Len(selected) :
      IsSkipped(selected[n]) =>
        LET start == Start
            prev == CleanSteps(start, profile, selected, n - 1)
            rest == Without(selected, n)
            st == CleanSteps(start, profile, rest, Len(rest))
        IN  /\ ApplySuggestion(prev, profile, selected[n]) = prev
            /\ cleaned.data = st.data
            /\ heap = st.heap

\* C10 witness: a suggestion for the unknown column zip is followed by a
\* missing suggestion that fills a cell
C10_Witness ==
  /\ pc = "cleaned"
  /\ selected = <<Suggestion(zip, "missing", TRUE), Suggestion(age, "missing", TRUE)>>
  /\ \E i \in 1..Len(cleaned.data) : cleaned.data[i] > Len(dataset.data)

Suggested == pc = "suggested"

\* the position of the column called name in profile.columns
ColumnIndex(name) ==
  CHOOSE i \in 1..Len(profile.columns) : profile.columns[i].name = name

HasMissing(column) == JSGt(column.nullPercentage, Num(0))

\* C11: the generated list is, in this order: one missing suggestion for each
\* column with nullPercentage > 0, in column order; then one duplicate
\* suggestion, with column Multiple, exactly when duplicatePercentage > 0;
\* then outlier suggestions in column order.  No suggestion has the issue
\* inconsistent and every suggestion has autoFix = true.
C11_SuggestionOrder ==
  Suggested =>
    LET withMissing == SelectSeq(profile.columns, HasMissing)
        m == Len(withMissing)
        d == IF JSGt(profile.duplicatePercentage, Num(0)) THEN 1 ELSE 0
    IN  /\ Len(suggestions) >= m + d
        /\ \A i \in 1..Len(suggestions) :
             /\ suggestions[i].autoFix = TRUE
             /\ suggestions[i].issue # "inconsistent"
             /\ i <= m => /\ suggestions[i].issue = "missing"
                          /\ suggestions[i].column = withMissing[i].name
             /\ (i > m /\ i <= m + d) => /\ suggestions[i].issue = "duplicate"
                                         /\ suggestions[i].column = Multiple
             /\ i > m + d => /\ suggestions[i].issue = "outlier"
                             /\ suggestions[i].column \in
                                  {profile.columns[j].name :
                                     j \in 1..Len(profile.columns)}
        /\ \A i, j \in (m + d + 1)..Len(suggestions) :
             i < j => ColumnIndex(suggestions[i].column)
                        < ColumnIndex(suggestions[j].column)

\* all three rules fired, the missing one on a column behind the outlier columns
C11_Witness ==
  /\ Suggested
  /\ Len(suggestions) = 4
  /\ suggestions[1].issue = "missing"
  /\ suggestions[2].issue = "duplicate"
  /\ suggestions[3].issue = "outlier"
  /\ suggestions[4].issue = "outlier"
  /\ ColumnIndex(suggestions[1].column) > ColumnIndex(suggestions[4].column)

\* a < b for two finite numbers
Less(a, b) ==
  IF a.s = <<>> /\ b.s = <<>> THEN a.num * b.den < b.num * a.den
  ELSE LessDoubles(a, b)

\* the positions of the outlier suggestions on the column called name
OutlierOn(name) ==
  {i \in 1..Len(suggestions) :
     suggestions[i].issue = "outlier" /\ suggestions[i].column = name}

\* the values of the age cells of the rows, in row order
AgeCells == [i \in 1..Len(dataset.data) |-> Get(heap[dataset.data[i]], age)]

\* C12: a column gets an outlier suggestion, and then exactly one, exactly when
\* its type is number, max - min > 0 and max > mean * 3.
C12_OutlierRule ==
  Suggested =>
    \A j \in 1..Len(profile.columns) :
      LET column == profile.columns[j]
          flagged == /\ column.type = "number"
                     /\ JSGt(JSSub(column.max, column.min), Num(0))
                     /\ JSGt(column.max, JSMul(column.mean, Num(3)))
      IN  Cardinality(OutlierOn(column.name)) = (IF flagged THEN 1 ELSE 0)

\* the column 10, 10, 10, 1000 with mean 257.5 has its outlier suggestion,
\* behind the duplicate suggestion for the repeated rows
C12_Witness ==
  /\ Suggested
  /\ AgeCells = <<Num(10), Num(10), Num(10), Num(1000)>>
  /\ profile.columns[1].mean = Frac(515, 2)
  /\ OutlierOn(age) = {2}

\* the cells of the j-th field, in row order
CellsOf(j) ==
  [i \in 1..Len(dataset.data) |-> Get(heap[dataset.data[i]], dataset.fields[j])]

\* the k-th smallest of the numbers among cells: the number with fewer than k
\* numbers below it and at least k numbers not above it
KthSmallest(cells, k) ==
  LET nums == {i \in 1..Len(cells) : cells[i].t = "number"}
  IN  CHOOSE v \in {cells[i] : i \in nums} :
        /\ Cardinality({i \in nums : Less(cells[i], v)}) < k
        /\ Cardinality({i \in nums : ~Less(v, cells[i])}) >= k

\* C13: the median of a numeric column is the middle one of its numbers in
\* ascending order when their count is odd and the average of the two middle
\* ones when it is even, whatever the order of the rows and whichever cells
\* are null.
C13_Median ==
  pc = "profiled" =>
    \A j \in 1..Len(profile.columns) :
      LET cells == CellsOf(j)
          n == Cardinality({i \in 1..Len(cells) : cells[i].t = "number"})
          column == profile.columns[j]
      IN  (column.type = "number" /\ n > 0) =>
            IF n % 2 = 1
            THEN column.median = KthSmallest(cells, (n + 1) \div 2)
            ELSE LET a == KthSmallest(cells, n \div 2)
                     b == KthSmallest(cells, n \div 2 + 1)
                 IN  column.median = JSDiv(JSAdd(a, b), Num(2))

\* the rows 4, 2, 3, 1 have the median 2.5
C13_Witness ==
  /\ pc = "profiled"
  /\ AgeCells = <<Num(4), Num(2), Num(3), Num(1)>>
  /\ profile.columns[1].median = Frac(5, 2)

\* the rows whose cell of cells is not a missing marker
Present(cells) == {i \in 1..Len(cells) : ~IsMissing(cells[i])}

\* the number of present cells with the text of the i-th cell
CountOf(cells, i) ==
  Cardinality({k \in Present(cells) : JSString(cells[k]) = JSString(cells[i])})

\* the first row, in row order, whose value has the highest count
FirstMostCommon(cells) ==
  CHOOSE i \in Present(cells) :
    /\ \A k \in Present(cells) : CountOf(cells, k) <= CountOf(cells, i)
    /\ \A k \in Present(cells) :
         CountOf(cells, k) = CountOf(cells, i) => i <= k

\* C14: the mode of a string or boolean column with a non-null cell is the
\* value with the highest count among the non-null cells, and among several
\* values with that count the one encountered first in row order, also when
\* the values look like integers.
C14_ModeFirstEncountered ==
  pc = "profiled" =>
    \A j \in 1..Len(profile.columns) :
      LET cells == CellsOf(j)
          column == profile.columns[j]
      IN  (column.type \in {"string", "boolean"} /\ Present(cells) # {}) =>
            column.mode = Str(JSString(cells[FirstMostCommon(cells)]))

\* C15: the type of a column is decided by its cells other than null,
\* undefined and '': string when there is none, the class they share (number,
\* boolean, date or string, as the classification of single values gives it)
\* when they all fall in one class, and mixed when two classes occur.
C15_ColumnType ==
  pc = "profiled" =>
    \A j \in 1..Len(profile.columns) :
      LET cells == CellsOf(j)
          classes == {ValueClass(cells[i]) : i \in Present(cells)}
      IN  /\ classes = {} => profile.columns[j].type = "string"
          /\ Cardinality(classes) = 1 => profile.columns[j].type \in classes
          /\ Cardinality(classes) >= 2 => profile.columns[j].type = "mixed"

\* an empty string, a number and a boolean: two classes, the '' ignored
C15_Witness ==
  /\ pc = "profiled"
  /\ dataset.fields = <<city>>
  /\ CellsOf(1) = <<Str(<<>>), Num(7), Bool(TRUE)>>
  /\ profile.columns[1].type = "mixed"

\* question, in lower case, contains the phrase somewhere
Contains(phrase) ==
  LET q == toLowerCase(question)
  IN  \E at \in 1..Len(q) :
        /\ at + Len(phrase) - 1 <= Len(q)
        /\ SubSeq(q, at, at + Len(phrase) - 1) = phrase

\* C16: a question that contains "how many rows" or "how many records", in
\* any case, is answered with exactly "There are N rows in this dataset.",
\* N the number of rows, whatever field name or other phrase it also contains.
C16_RowCountFirst ==
  (pc = "answered"
   /\ (\/ Contains(<<"h", "o", "w", " ", "m", "a", "n", "y", " ", "r", "o", "w", "s">>)
       \/ Contains(<<"h", "o", "w", " ", "m", "a", "n", "y", " ", "r", "e", "c", "o",
                     "r", "d", "s">>)))
    => /\ answer.raised = FALSE
       /\ answer.text
            = <<"T", "h", "e", "r", "e", " ", "a", "r", "e", " ">>
                \o NatChars(Len(dataset.data))
                \o <<" ", "r", "o", "w", "s", " ", "i", "n", " ", "t", "h", "i", "s",
                     " ", "d", "a", "t", "a", "s", "e", "t", ".">>

\* the upper-case question that also names a field and asks for a maximum,
\* put to three rows with numbers in that field
C16_Witness ==
  /\ pc = "answered"
  /\ question = QRowsMaxAge
  /\ Len(dataset.data) = 3
  /\ \A i \in 1..3 : Get(heap[dataset.data[i]], age).t = "number"
  /\ answer.text[11] = "3"

IsNumberColumn(column) == column.type = "number"

IsOtherColumn(column) == column.type # "number"

\* the names of a list of columns
NamesOf(columns) == [i \in 1..Len(columns) |-> columns[i].name]

\* C17: categorizeColumns splits the columns in two: measures are the names of
\* the columns of type number, dimensions the names of all other columns, each
\* in column order; the two lists share no name and every column is in exactly
\* one of them, once.
C17_Partition ==
  pc = "categorized" =>
    /\ groups.measures = NamesOf(SelectSeq(profile.columns, IsNumberColumn))
    /\ groups.dimensions = NamesOf(SelectSeq(profile.columns, IsOtherColumn))
    /\ SetOfSeq(groups.measures) \cap SetOfSeq(groups.dimensions) = {}
    /\ Len(groups.measures) + Len(groups.dimensions) = Len(profile.columns)
    /\ \A j \in 1..Len(profile.columns) :
         Cardinality({i \in 1..Len(groups.measures) :
                        groups.measures[i] = profile.columns[j].name})
           + Cardinality({i \in 1..Len(groups.dimensions) :
                            groups.dimensions[i] = profile.columns[j].name}) = 1

\* a first column without numbers is a dimension, ahead of the text column
C17_Witness ==
  /\ pc = "categorized"
  /\ groups.measures = <<score>>
  /\ groups.dimensions = <<age, city>>

\* one of the three date patterns matches s from its first character on
DateAtStart(s) ==
  MatchAt(s, PatISO, 1) \/ MatchAt(s, PatSlash, 1) \/ MatchAt(s, PatDash, 1)

\* C18: a string counts as a date only when YYYY-MM-DD, MM/DD/YYYY or
\* MM-DD-YYYY matches from its first character on: a column is typed date
\* exactly when it has a non-null cell and each of its non-null cells is such
\* a string, so a column of strings holding a pattern only behind other
\* characters is typed string.
C18_DateAnchored ==
  pc = "profiled" =>
    \A j \in 1..Len(profile.columns) :
      LET cells == CellsOf(j)
      IN  profile.columns[j].type = "date"
            <=> /\ Present(cells) # {}
                /\ \A i \in Present(cells) :
                     cells[i].t = "string" /\ DateAtStart(cells[i].s)

\* C19: uniqueCount is the number of distinct raw values of the column, null,
\* undefined (an absent key) and '' together counting as one value, also in a
\* column that holds more than one kind of missing marker.
C19_UniqueCount ==
  pc = "profiled" =>
    \A j \in 1..Len(profile.columns) :
      LET cells == CellsOf(j)
      IN  profile.columns[j].uniqueCount
            = Cardinality({IF IsMissing(cells[i]) THEN Null ELSE cells[i] :
                             i \in 1..Len(cells)})

\* C20: the recommendation of a missing suggestion is the mean-or-median text
\* for a number column, the most-common-value text naming the mode for a string
\* or boolean column with a defined mode, and the placeholder text for every
\* other column.
C20_MissingRecommendation ==
  Suggested =>
    \A i \in 1..Len(suggestions) :
      suggestions[i].issue = "missing" =>
        LET column == profile.columns[ColumnIndex(suggestions[i].column)]
        IN  suggestions[i].recommendation
              = IF column.type = "number" THEN FILL_MEAN_MEDIAN
                ELSE IF column.type \in {"string", "boolean"} /\ column.mode # Undefined
                THEN FILL_MOST_COMMON \o column.mode.s \o <<"\"">>
                ELSE REMOVE_OR_PLACEHOLDER

Applied == pc = "applied"

\* C21: the list applyCleaningActions hands to cleanDataset holds the ticked
\* suggestions in the order in which they were ticked, the order of the
\* entries of selectedSuggestions.
C21_SelectionOrder ==
  [][applyCleaningActions =>
       selected' = [i \in 1..Len(selectedSuggestions) |->
                      suggestions[selectedSuggestions[i] + 1]]]_vars

\* the positions of data whose row has a canonical key no earlier row has
FirstOccurrences(data) ==
  {i \in 1..Len(data) :
     \A j \in 1..(i - 1) :
       JSONstringify(heap[data[j]]) # JSONstringify(heap[data[i]])}

\* C22: applying the duplicate suggestion keeps one row for each distinct
\* canonical key, namely the first row with that key, and the kept rows
\* stand in the order of the first occurrences of their keys.
C22_KeepsFirstRow ==
  (Cleaned /\ selected = <<Dup>>) =>
    cleaned.data = FilterIdx(dataset.data, FirstOccurrences(dataset.data), 1)

Answered == pc = "answered"

\* the answer is the text made of a handler's opening words, the quoted field
\* age, its further words and a value
AnswerIs(opening, further, value) ==
  /\ answer.raised = FALSE
  /\ answer.text = opening \o <<"\"">> \o age \o <<"\"">> \o further \o value \o <<".">>

\* C23: when the profiler types the column as number, the question for its
\* maximum (minimum) is answered with the max (min) of its Profile, wherever
\* the empty cells of the column stand: an empty field of the file is a null
\* cell of the parsed dataset, a short line a row without the key.
C23_ExtremesAgree ==
  Answered =>
    LET column == ColumnProfile(age, Deref(heap, dataset.data))
    IN  column.type = "number" =>
          /\ question = QMaxAge
               => AnswerIs(THE_MAXIMUM, COLUMN_IS, NumChars(column.max))
          /\ question = QMinAge
               => AnswerIs(THE_MINIMUM, COLUMN_IS, NumChars(column.min))

\* the maximum and the minimum of a column that starts with an empty cell,
\* holds -4 and 1, and ends with a short row
C23_Witness ==
  /\ Answered
  /\ dataset.fields = <<city, age>>
  /\ Len(dataset.data) = 3
  /\ Get(heap[dataset.data[1]], age) = Null
  /\ Get(heap[dataset.data[2]], age) = Num(-4)
  /\ Keys(heap[dataset.data[3]]) = <<city>>
  /\ ColumnProfile(age, Deref(heap, dataset.data)).type = "number"
  /\ question = QMaxAge
  /\ AnswerIs(THE_MAXIMUM, COLUMN_IS, <<"-", "4">>)

StartsWith(text, opening) ==
  Len(text) >= Len(opening) /\ SubSeq(text, 1, Len(opening)) = opening

Within(text, part) ==
  \E at \in 1..Len(text) :
    at + Len(part) - 1 <= Len(text) /\ SubSeq(text, at, at + Len(part) - 1) = part

\* the sub-intents whose phrase occurs in the question, numbered in the order
\* maximum, minimum, average, unique, missing
IntentsAsked ==
  {n \in 1..5 :
     \E phrase \in
          (CASE n = 1 -> {<<"m", "a", "x", "i", "m", "u", "m">>, <<"m", "a", "x">>,
                          <<"h", "i", "g", "h", "e", "s", "t">>}
             [] n = 2 -> {<<"m", "i", "n", "i", "m", "u", "m">>, <<"m", "i", "n">>,
                          <<"l", "o", "w", "e", "s", "t">>}
             [] n = 3 -> {<<"a", "v", "e", "r", "a", "g", "e">>, <<"m", "e", "a", "n">>}
             [] n = 4 -> {<<"u", "n", "i", "q", "u", "e">>,
                          <<"d", "i", "s", "t", "i", "n", "c", "t">>}
             [] n = 5 -> {<<"m", "i", "s", "s", "i", "n", "g">>, <<"n", "u", "l", "l">>,
                          <<"e", "m", "p", "t", "y">>}) :
       Contains(phrase)}

\* the answer is the one the handler of sub-intent n writes; 0 stands for
\* the generic column summary
AnswerOfIntent(n) ==
  /\ answer.raised = FALSE
  /\ CASE n = 1 -> StartsWith(answer.text, THE_MAXIMUM)
       [] n = 2 -> StartsWith(answer.text, THE_MINIMUM)
       [] n = 3 -> StartsWith(answer.text, THE_AVERAGE)
       [] n = 4 -> StartsWith(answer.text, THERE_ARE) /\ Within(answer.text, UNIQUE_VALUES_IN)
       [] n = 5 -> StartsWith(answer.text, THERE_ARE) /\ Within(answer.text, MISSING_VALUES)
       [] n = 0 -> StartsWith(answer.text, INFORMATION)

\* the question reaches the search for a subject column and names a field
SubjectFound ==
  /\ ~Contains(HOW_MANY_ROWS)
  /\ ~Contains(HOW_MANY_RECORDS)
  /\ ~Contains(HOW_MANY_COLUMNS)
  /\ ~Contains(HOW_MANY_FIELDS)
  /\ ~Contains(WHAT_COLUMNS)
  /\ ~Contains(WHAT_FIELDS)
  /\ \E i \in 1..Len(dataset.fields) : Contains(toLowerCase(dataset.fields[i]))

\* C24: a question that names a column is answered by the handler of the
\* first of the sub-intents maximum, minimum, average, unique, missing whose
\* phrase occurs in it, and by the generic column summary only when no such
\* phrase occurs.
C24_FirstIntentWins ==
  (Answered /\ SubjectFound) =>
    LET intents == IntentsAsked
    IN  IF intents = {} THEN AnswerOfIntent(0)
        ELSE AnswerOfIntent(CHOOSE n \in intents : \A k \in intents : n <= k)

\* the outcome of cleanDataset for the one suggestion s, run on the heap and
\* data array of before
CleanOne(before, s) ==
  cleanDataset(before.heap, [dataset EXCEPT !.data = before.data], profile, <<s>>)

\* no two rows of the cleaned dataset have the same canonical key
NoRepeatedRow ==
  \A i, j \in 1..Len(cleaned.data) :
    i # j => JSONstringify(heap[cleaned.data[i]]) # JSONstringify(heap[cleaned.data[j]])

\* C25: the result of cleanDataset for a list of two suggestions is the result
\* of applying the second to the dataset the first produced; a duplicate
\* suggestion behind a missing one therefore also removes the rows that the
\* fill made identical.
C25_Sequential ==
  (Cleaned /\ Len(selected) = 2) =>
    LET second == CleanOne(CleanOne(Start, selected[1]), selected[2])
    IN  /\ cleaned.data = second.data
        /\ heap = second.heap
        /\ selected[2] = Dup => NoRepeatedRow

\* a fill that makes two different rows identical, followed by the duplicate
\* suggestion, which removes one of them; in the other order both rows stay
C25_Witness ==
  /\ Cleaned
  /\ selected = <<Suggestion(age, "missing", TRUE), Dup>>
  /\ profile.duplicateRows = 0
  /\ Len(cleaned.data) < Len(dataset.data)
  /\ Len(CleanOne(CleanOne(Start, Dup), selected[1]).data) = Len(dataset.data)

\* C27: applying the duplicate suggestion alone leaves rowCount - duplicateRows
\* rows; applying a list without a duplicate suggestion leaves as many rows as
\* before, each at its place: a row differs from the parsed row at its
\* position at most in cells that were missing or numbers.
C27_DuplicatesAgree ==
  Cleaned =>
    /\ selected = <<Dup>>
         => Len(cleaned.data) = profile.rowCount - profile.duplicateRows
    /\ (\A n \in 1..Len(selected) : selected[n].issue # "duplicate")
         => /\ Len(cleaned.data) = Len(dataset.data)
            /\ \A i \in 1..Len(cleaned.data) :
                 \A f \in 1..Len(dataset.fields) :
                   LET old == Get(heap[dataset.data[i]], dataset.fields[f])
                       new == Get(heap[cleaned.data[i]], dataset.fields[f])
                   IN  new = old \/ IsMissing(old) \/ old.t = "number"

\* the duplicate suggestion applied alone to a dataset with repeated rows
C27_Witness ==
  /\ Cleaned
  /\ selected = <<Dup>>
  /\ profile.duplicateRows > 0
  /\ Len(cleaned.data) = profile.rowCount - profile.duplicateRows

\* the Profile of the cleaned dataset
Reprofile == generateDataProfile(dataset.fields, Deref(heap, cleaned.data))

\* C26: applying the complete generated list, in generation order, leaves a
\* dataset without duplicate rows: its Profile has duplicateRows = 0.
C26_FullListNoDuplicates ==
  (Applied /\ selected = suggestions) => Reprofile.duplicateRows = 0

\* the columns for which a missing suggestion was applied
FilledColumns ==
  {j \in 1..Len(profile.columns) :
     \E n \in 1..Len(selected) :
       /\ selected[n].issue = "missing"
       /\ selected[n].autoFix
       /\ selected[n].column = profile.columns[j].name}

\* C28: after a missing suggestion for a column of the Profile was applied, no
\* cell of that column is null, undefined or '': the Profile of the result has
\* nullCount = 0 for it and yields no missing suggestion for it.
C28_NoMissingLeft ==
  Applied =>
    LET again == Reprofile
        next == generateCleaningSuggestions(again)
    IN  \A j \in FilledColumns :
          /\ \A i \in 1..Len(cleaned.data) :
               ~IsMissing(Get(heap[cleaned.data[i]], profile.columns[j].name))
          /\ again.columns[j].nullCount = 0
          /\ \A n \in 1..Len(next) :
               ~(next[n].issue = "missing" /\ next[n].column = profile.columns[j].name)

\* both columns had missing cells, one of them nothing else, and both
\* suggestions were applied
C28_Witness ==
  /\ Applied
  /\ FilledColumns = {1, 2}
  /\ profile.columns[1].nullCount = Len(dataset.data)
  /\ profile.columns[2].nullCount = 1
  /\ Len(cleaned.data) = 2
  /\ Reprofile.nullValues = 0

\* C29: applying the missing suggestion for a column that has a non-null
\* value leaves the type of the column as it was: the Profile of the cleaned
\* dataset infers the type the original Profile inferred.
C29_FillKeepsType ==
  Applied =>
    LET again == Reprofile
    IN  \A j \in FilledColumns :
          profile.columns[j].nullCount < profile.rowCount
            => again.columns[j].type = profile.columns[j].type

\* a <= b for two finite numbers
AtMost(a, b) == ~Less(b, a)

RECURSIVE SumCounts(_)
SumCounts(categories) ==
  IF categories = <<>> THEN Num(0)
  ELSE JSPlus(Head(categories).n, SumCounts(Tail(categories)))

\* C30: a column has min, max, mean and median exactly when its type is
\* number, and then min <= median <= max and min <= mean <= max; it has a
\* categories table exactly when its type is string or boolean, and then the
\* counts of the table sum to rowCount - nullCount.
C30_StatsAndCategories ==
  pc = "profiled" =>
    \A j \in 1..Len(profile.columns) :
      LET column == profile.columns[j]
          stats == {column.min, column.max, column.mean, column.median}
      IN  /\ IF column.type = "number"
             THEN /\ Undefined \notin stats
                  /\ AtMost(column.min, column.median)
                  /\ AtMost(column.median, column.max)
                  /\ AtMost(column.min, column.mean)
                  /\ AtMost(column.mean, column.max)
             ELSE stats = {Undefined}
          /\ column.hasCategories <=> column.type \in {"string", "boolean"}
          /\ column.hasCategories
               => SumCounts(column.categories)
                    = Num(profile.rowCount - column.nullCount)

====
